---- MODULE Spec2Model ----
(***************************************************************************)
(* A model of jumble, an MCP server answering queries about a workspace of *)
(* projects.  The registry (workspace descriptor + project map) is built   *)
(* by a discovery pass over the directory tree under the root; requests    *)
(* arrive one line at a time and are answered from the registry.           *)
(*                                                                         *)
(* The file system is the environment: its content is a state variable     *)
(* that changes between requests.  File contents are named by tokens; the  *)
(* TOML parsers map a token to the structure it decodes to, or fail.       *)
(***************************************************************************)
EXTENDS Integers, Sequences, FiniteSets, TLC

VARIABLES
    disk,        \* per project directory: the files under <dir>/.jumble
    wsFile,      \* <root>/.jumble/workspace.toml
    walkOrder,   \* the order in which the directory walk yields the directories;
                 \* it is a property of the file system and stays as it is
    workspace,   \* Server.workspace : Option<WorkspaceConfig>
    projects,    \* Server.projects  : HashMap<String, ProjectData>
    hashSeed,    \* decides the iteration order of the maps built by the last pass
    line,        \* the input line the main loop read last
    response,    \* what the main loop wrote for that line: <<>> or <<message>>
    passDisk,    \* history: the disk and the workspace file seen by the most
    passWs,      \*          recent discovery pass
    edits,       \* number of changes made to the file system so far
    setup        \* the runs of jumble setup: the tree of the workspace root they
                 \* work on, before the first and after each run, and the commands

vars == <<disk, wsFile, walkOrder, workspace, projects, hashSeed, line, response,
          passDisk, passWs, edits, setup>>

\* ------------------------------------------------------------------ bounds

\* The file system changes at most this many times in a behaviour.
MaxDiskEdits == 1

\* -------------------------------------------------------------- small types

\* Option<T>: None is <<>>, Some(x) is <<x>>.
None == <<>>
Some(x) == <<x>>
IsSome(o) == o # <<>>
Unwrap(o) == o[1]

\* A HashMap with no entry.
EmptyMap == [k \in {} |-> <<>>]

\* HashMap::insert: a later insert under the same key replaces the entry.
\* HashMap::entry(k).or_insert(v) in place of insert: a key that is already in
\* the map keeps its value.
MapInsert_keep_first(m, k, v) ==
    [x \in (DOMAIN m) \cup {k} |-> IF x \in DOMAIN m THEN m[x] ELSE v]

MapInsert(m, k, v) == [x \in (DOMAIN m) \cup {k} |-> IF x = k THEN v ELSE m[x]]

\* HashMap::get
MapGet(m, k) == IF k \in DOMAIN m THEN Some(m[k]) ELSE None

RECURSIVE Reverse(_)
Reverse(s) == IF s = <<>> THEN <<>> ELSE Append(Reverse(Tail(s)), Head(s))

RECURSIVE Concat(_)
\* Concatenation of a sequence of sequences.
Concat(ss) == IF ss = <<>> THEN <<>> ELSE Head(ss) \o Concat(Tail(ss))

\* The permutations of a finite set, as sequences.
Perms(S) == {s \in [1..Cardinality(S) -> S] : \A x \in S : \E i \in DOMAIN s : s[i] = x}

\* ----------------------------------------------------------- JSON values
\* A JSON value as the request carries it: t is its type, s its text.

Absent == [t |-> "absent", s |-> ""]     \* the key is not in the object
JNull == [t |-> "null", s |-> ""]
JNum(n) == [t |-> "num", s |-> n]
JStr(x) == [t |-> "str", s |-> x]

\* Value::get(key).and_then(|v| v.as_str())
AsStr(v) == IF v.t = "str" THEN Some(v.s) ELSE None

\* ---------------------------------------------------------------- strings
\* The strings that are lowercased or searched, as their characters.
Chars ==
    ("Auth" :> <<"A", "u", "t", "h">>) @@
    ("auth" :> <<"a", "u", "t", "h">>) @@
    ("AUTH" :> <<"A", "U", "T", "H">>) @@
    ("oauth" :> <<"o", "a", "u", "t", "h">>) @@
    ("Tokens" :> <<"T", "o", "k", "e", "n", "s">>) @@
    ("Third party" :> <<"T", "h", "i", "r", "d", " ", "p", "a", "r", "t", "y">>) @@
    ("routing" :> <<"r", "o", "u", "t", "i", "n", "g">>) @@
    ("rout" :> <<"r", "o", "u", "t">>) @@
    ("login" :> <<"l", "o", "g", "i", "n">>) @@
    ("zzz" :> <<"z", "z", "z">>) @@
    ("h" :> <<"h">>) @@
    ("Login flow" :> <<"L", "o", "g", "i", "n", " ", "f", "l", "o", "w">>) @@
    ("HTTP routes" :> <<"H", "T", "T", "P", " ", "r", "o", "u", "t", "e", "s">>)

UpperToLower ==
    ("A" :> "a") @@ ("L" :> "l") @@ ("H" :> "h") @@ ("T" :> "t") @@ ("P" :> "p") @@
    ("U" :> "u")

\* str::to_lowercase
ToLowercase(x) ==
    LET cs == Chars[x]
    IN [i \in DOMAIN cs |-> IF cs[i] \in DOMAIN UpperToLower THEN UpperToLower[cs[i]] ELSE cs[i]]

\* str::contains, on character sequences
Contains(hay, needle) ==
    \E i \in 0..(Len(hay) - Len(needle)) : SubSeq(hay, i + 1, i + Len(needle)) = needle

\* ---------------------------------------------------- configuration files
\* The project directories under the root, in no particular order.
Dirs == {"a", "b"}

\* What .jumble/project.toml files decode to (ProjectConfig).
ProjectTomls ==
    ("A1" :>
        [project |-> [name |-> "app", description |-> "x", language |-> Some("rust"),
                      version |-> Some("1.0"), repository |-> None],
         commands |-> ("build" :> "make") @@ ("test" :> "cargo test"),
         entry_points |-> ("main" :> "src/main.rs"),
         dependencies |-> [internal |-> <<"lib">>, external |-> <<"serde">>],
         related_projects |-> [upstream |-> <<"lib">>, downstream |-> <<>>],
         api |-> None,
         concepts |-> ("Auth" :> [files |-> <<"src/auth.rs">>, summary |-> "Login flow"]) @@
                      ("routing" :> [files |-> <<"src/routes.rs", "src/http.rs">>,
                                     summary |-> "HTTP routes"])]) @@
    ("A2" :>
        [project |-> [name |-> "app", description |-> "y", language |-> None,
                      version |-> None, repository |-> None],
         commands |-> EmptyMap,
         entry_points |-> EmptyMap,
         dependencies |-> [internal |-> <<>>, external |-> <<>>],
         related_projects |-> [upstream |-> <<>>, downstream |-> <<>>],
         api |-> Some([openapi |-> Some("api.yaml"), base_url |-> None, endpoints |-> <<"/v1">>]),
         concepts |-> EmptyMap]) @@
    ("A3" :>
        [project |-> [name |-> "app", description |-> "w", language |-> None,
                      version |-> None, repository |-> None],
         commands |-> EmptyMap,
         entry_points |-> EmptyMap,
         dependencies |-> [internal |-> <<>>, external |-> <<>>],
         related_projects |-> [upstream |-> <<>>, downstream |-> <<>>],
         api |-> None,
         concepts |-> ("Auth" :> [files |-> <<"src/auth.rs">>, summary |-> "Login flow"]) @@
                      ("auth" :> [files |-> <<"src/token.rs">>, summary |-> "Tokens"]) @@
                      ("oauth" :> [files |-> <<"src/oauth.rs">>, summary |-> "Third party"])]) @@
    ("B" :>
        [project |-> [name |-> "lib", description |-> "z", language |-> Some("go"),
                      version |-> None, repository |-> None],
         commands |-> ("build" :> "go build"),
         entry_points |-> EmptyMap,
         dependencies |-> [internal |-> <<>>, external |-> <<>>],
         related_projects |-> [upstream |-> <<>>, downstream |-> <<"app">>],
         api |-> None,
         concepts |-> ("routing" :> [files |-> <<"mux.go">>, summary |-> "HTTP routes"])])

\* What .jumble/conventions.toml files decode to (ProjectConventions).
ConventionsTomls ==
    ("CV1" :> [conventions |-> ("style" :> "run the formatter"),
               gotchas |-> ("pitfall" :> "mind the cache")])

\* What .jumble/docs.toml files decode to (ProjectDocs).
DocsTomls ==
    ("DX1" :> [docs |-> ("guide" :> [path |-> "docs/guide.md", summary |-> "How to"])])

\* What .jumble/workspace.toml files decode to (WorkspaceConfig).
WorkspaceTomls ==
    ("W1" :> [workspace |-> [name |-> Some("mono"), description |-> Some("all of it")],
              conventions |-> ("naming" :> "snake_case"),
              gotchas |-> EmptyMap]) @@
    ("W2" :> [workspace |-> [name |-> None, description |-> None],
              conventions |-> EmptyMap,
              gotchas |-> EmptyMap])

\* ProjectConventions::default(), ProjectDocs::default(), ProjectPrompts::default()
DefaultConventions == [conventions |-> EmptyMap, gotchas |-> EmptyMap]
DefaultDocs == [docs |-> EmptyMap]
DefaultPrompts == [prompts |-> EmptyMap]

\* The layouts of a .jumble/prompts directory: the files in it and what reading
\* each gives.  "nodir": there is no such directory; "locked": there is one and
\* it cannot be listed.
PromptLayouts ==
    ("nodir" :> EmptyMap) @@
    ("locked" :> EmptyMap) @@
    ("add-v1" :> (("add.md" :> "v1") @@ ("notes.txt" :> "n"))) @@
    ("add-v2" :> (("add.md" :> "v2") @@ ("bogus.md" :> "b")))

\* Path::extension and Path::file_stem of the file names above.
Extension == ("add.md" :> "md") @@ ("notes.txt" :> "txt") @@ ("bogus.md" :> "md")
FileStem == ("add.md" :> "add") @@ ("notes.txt" :> "notes") @@ ("bogus.md" :> "bogus")

\* A file of the disk is absent, unreadable (it exists and reading it fails), or
\* has a content: "garbage" is content no parser accepts.
ConventionsFiles == {"absent", "garbage", "CV1"}
DocsFiles == {"absent", "DX1"}
PromptDirs == {"nodir", "add-v1", "add-v2"}
WorkspaceFiles == {"absent", "unreadable", "garbage"} \cup DOMAIN WorkspaceTomls

\* Path::exists
Exists(file) == file # "absent"

\* std::fs::read_to_string: Ok(content) or Err
ReadToString(file) == IF file \in {"absent", "unreadable"} THEN None ELSE Some(file)

\* toml::from_str into the type whose decodings are table
FromStr(table, content) == IF content \in DOMAIN table THEN Some(table[content]) ELSE None

\* -------------------------------------------------------------- discovery

\* load_workspace_static falling back to the default config when the file
\* cannot be read or parsed.
load_workspace_static_or_default(ws) ==
    IF Exists(ws)
    THEN LET content == ReadToString(ws)
             parsed == IF IsSome(content) THEN FromStr(WorkspaceTomls, Unwrap(content))
                       ELSE None
         IN IF IsSome(parsed) THEN parsed ELSE Some(WorkspaceTomls["W2"])
    ELSE None

\* Server::load_workspace_static
load_workspace_static(ws) ==
    IF Exists(ws)
    THEN LET content == ReadToString(ws)
         IN IF IsSome(content) THEN FromStr(WorkspaceTomls, Unwrap(content)) ELSE None
    ELSE None

\* Server::load_project: Ok(config) or Err
load_project(file) ==
    LET content == ReadToString(file)
    IN IF IsSome(content) THEN FromStr(ProjectTomls, Unwrap(content)) ELSE None

\* Server::load_conventions
load_conventions(file) ==
    LET content == IF Exists(file) THEN ReadToString(file) ELSE None
        parsed == IF IsSome(content) THEN FromStr(ConventionsTomls, Unwrap(content)) ELSE None
    IN IF IsSome(parsed) THEN Unwrap(parsed) ELSE DefaultConventions

\* Server::load_docs
load_docs(file) ==
    LET content == IF Exists(file) THEN ReadToString(file) ELSE None
        parsed == IF IsSome(content) THEN FromStr(DocsTomls, Unwrap(content)) ELSE None
    IN IF IsSome(parsed) THEN Unwrap(parsed) ELSE DefaultDocs

\* Server::discover_prompts: every *.md file of <dir>/.jumble/prompts, keyed by
\* its stem; the value is the file's path.
discover_prompts(d, layout) ==
    LET is_dir == layout # "nodir"
        read_dir == IF layout = "locked" THEN None ELSE Some(DOMAIN PromptLayouts[layout])
    IN IF is_dir /\ IsSome(read_dir)
       THEN LET md == {f \in Unwrap(read_dir) : Extension[f] = "md"}
            IN [prompts |-> [t \in {FileStem[f] : f \in md} |->
                                [dir |-> d, file |-> CHOOSE f \in md : FileStem[f] = t]]]
       ELSE DefaultPrompts

\* The walk yields <dir>/.jumble/project.toml for the directories that have one.
WalkFinds(fs, d) == Exists(fs[d].project)

\* The loop of discover_projects with `?` on load_project in place of `if let
\* Ok`: the first descriptor that does not load ends the pass.
RECURSIVE DiscoverFrom_abort(_, _, _)
DiscoverFrom_abort(walk, fs, acc) ==
    IF walk = <<>> THEN acc
    ELSE LET d == Head(walk)
             config == load_project(fs[d].project)
         IN IF ~WalkFinds(fs, d) THEN DiscoverFrom_abort(Tail(walk), fs, acc)
            ELSE IF ~IsSome(config) THEN acc
            ELSE DiscoverFrom_abort(Tail(walk), fs,
                     MapInsert(acc, Unwrap(config).project.name,
                         [dir |-> d,
                          config |-> Unwrap(config),
                          prompts |-> discover_prompts(d, fs[d].prompts),
                          conventions |-> load_conventions(fs[d].conventions),
                          docs |-> load_docs(fs[d].docs)]))

\* The loop of discover_projects registering a project only when its
\* conventions.toml is there and loads.
RECURSIVE DiscoverFrom_strict(_, _, _)
DiscoverFrom_strict(walk, fs, acc) ==
    IF walk = <<>> THEN acc
    ELSE LET d == Head(walk)
             config == load_project(fs[d].project)
         IN IF /\ WalkFinds(fs, d)
               /\ IsSome(config)
               /\ fs[d].conventions \in DOMAIN ConventionsTomls
            THEN DiscoverFrom_strict(Tail(walk), fs,
                     MapInsert(acc, Unwrap(config).project.name,
                         [dir |-> d,
                          config |-> Unwrap(config),
                          prompts |-> discover_prompts(d, fs[d].prompts),
                          conventions |-> load_conventions(fs[d].conventions),
                          docs |-> load_docs(fs[d].docs)]))
            ELSE DiscoverFrom_strict(Tail(walk), fs, acc)

\* The loop of discover_projects inserting each project under the name of its
\* directory in place of the name its descriptor declares.
RECURSIVE DiscoverFrom_keyed_by_dir(_, _, _)
DiscoverFrom_keyed_by_dir(walk, fs, acc) ==
    IF walk = <<>> THEN acc
    ELSE LET d == Head(walk)
             config == load_project(fs[d].project)
         IN IF WalkFinds(fs, d) /\ IsSome(config)
            THEN DiscoverFrom_keyed_by_dir(Tail(walk), fs,
                     MapInsert(acc, d,
                         [dir |-> d,
                          config |-> Unwrap(config),
                          prompts |-> discover_prompts(d, fs[d].prompts),
                          conventions |-> load_conventions(fs[d].conventions),
                          docs |-> load_docs(fs[d].docs)]))
            ELSE DiscoverFrom_keyed_by_dir(Tail(walk), fs, acc)

\* The loop of Server::discover_projects over the rest of the walk.
RECURSIVE DiscoverFrom(_, _, _)
DiscoverFrom(walk, fs, acc) ==
    IF walk = <<>> THEN acc
    ELSE LET d == Head(walk)
             config == load_project(fs[d].project)
         IN IF WalkFinds(fs, d) /\ IsSome(config)
            THEN DiscoverFrom(Tail(walk), fs,
                     MapInsert(acc, Unwrap(config).project.name,
                         [dir |-> d,
                          config |-> Unwrap(config),
                          prompts |-> discover_prompts(d, fs[d].prompts),
                          conventions |-> load_conventions(fs[d].conventions),
                          docs |-> load_docs(fs[d].docs)]))
            ELSE DiscoverFrom(Tail(walk), fs, acc)

\* discover_projects filling self.projects in place of a new map: what main.rs's
\* discover_projects would do if it were run a second time.
discover_projects_merge(self_projects, walk, fs) == DiscoverFrom(walk, fs, self_projects)

\* discover_projects that loads only the projects self does not know yet.
discover_projects_skip_known(self_projects, walk, fs) ==
    LET found == DiscoverFrom(walk, fs, EmptyMap)
    IN [n \in DOMAIN found \ DOMAIN self_projects |-> found[n]]

\* discover_projects handing out its map when the walk has visited one directory.
discover_projects_mid_walk(self_projects, walk, fs) ==
    DiscoverFrom(SubSeq(walk, 1, 1), fs, EmptyMap)

\* Server::discover_projects(&self): a new map, filled in walk order.  Of self,
\* whose project map is self_projects, only the root is read.
discover_projects(self_projects, walk, fs) == DiscoverFrom(walk, fs, EmptyMap)

\* discover_projects with `?` on load_project in place of `if let Ok`: the pass
\* is an Err as soon as a descriptor the walk finds does not load.
discover_projects_is_ok_strict(fs) ==
    \A d \in Dirs : WalkFinds(fs, d) => IsSome(load_project(fs[d].project))

\* Whether Server::discover_projects returns Ok.  The errors of the walk are
\* dropped by filter_map(|e| e.ok()), a descriptor that does not load by `if let
\* Ok`, the three auxiliary loaders return defaults, and the function has one
\* return, Ok(projects): it is Ok on every tree.
discover_projects_is_ok(fs) == TRUE

\* reload_workspace_and_projects without its second assignment.
reload_workspace_only ==
    [workspace |-> load_workspace_static(wsFile), projects |-> projects]

\* Server::reload_workspace_and_projects: the registry after a pass over the
\* tree as it is now.
reload_workspace_and_projects ==
    [workspace |-> load_workspace_static(wsFile),
     projects |-> discover_projects(projects, walkOrder, disk)]

\* ------------------------------------------------------------ query tools
\* A tool returns Result<String, String>.  A text is the sequence of the pieces
\* that format! and push_str put together.
Ok(text) == [ok |-> TRUE, text |-> text]
Err(text) == [ok |-> FALSE, text |-> text]

\* The keys of all maps, in one fixed order; a map built under seed 0 is iterated
\* in this order and one built under seed 1 in the opposite order.
KeyOrder ==
    <<"Auth", "add", "app", "auth", "bogus", "build", "guide", "lib", "main", "naming", "notes",
      "oauth", "pitfall", "routing", "style", "test">>

Seeds == {0, 1}

\* The order in which iterating over map m yields its keys.
IterKeys(m, seed) ==
    LET InMap(k) == k \in DOMAIN m
    IN SelectSeq(IF seed = 0 THEN KeyOrder ELSE Reverse(KeyOrder), InMap)

\* Vec<&str>::join(", ")
RECURSIVE Join(_)
Join(ks) ==
    IF ks = <<>> THEN <<>>
    ELSE IF Len(ks) = 1 THEN <<ks[1]>>
    ELSE <<ks[1], ", ">> \o Join(Tail(ks))

\* The pieces made by a loop over the keys ks, each iteration adding Piece(k).
ForEach(ks, Piece(_)) == Concat([i \in 1..Len(ks) |-> Piece(ks[i])])

\* The backquote character, which cannot be written in a string here.
BQ == "<backquote>"

\* format_commands leaving its loop after the first entry.
format_commands_first_entry(commands, seed) ==
    IF DOMAIN commands = {} THEN <<"No commands defined.">>
    ELSE LET name == Head(IterKeys(commands, seed))
         IN <<"- **", name, "**: ", BQ, commands[name], BQ, "\n">>

\* format_commands
format_commands(commands, seed) ==
    IF DOMAIN commands = {} THEN <<"No commands defined.">>
    ELSE LET Bullet(name) == <<"- **", name, "**: ", BQ, commands[name], BQ, "\n">>
         IN ForEach(IterKeys(commands, seed), Bullet)

\* format_entry_points
format_entry_points(entry_points, seed) ==
    IF DOMAIN entry_points = {} THEN <<"No entry points defined.">>
    ELSE LET Bullet(name) == <<"- **", name, "**: ", entry_points[name], "\n">>
         IN ForEach(IterKeys(entry_points, seed), Bullet)

\* The "- {}\n" lines of a Vec<String>
ListLines(items) ==
    LET Bullet(x) == <<"- ", x, "\n">>
    IN ForEach(items, Bullet)

\* format_dependencies
format_dependencies(deps) ==
    LET output ==
            (IF deps.internal # <<>>
             THEN <<"**Internal dependencies:**\n">> \o ListLines(deps.internal) ELSE <<>>)
            \o
            (IF deps.external # <<>>
             THEN <<"**External dependencies:**\n">> \o ListLines(deps.external) ELSE <<>>)
    IN IF output = <<>> THEN <<"No dependencies defined.">> ELSE output

\* format_related_projects
format_related_projects(related) ==
    LET output ==
            (IF related.upstream # <<>>
             THEN <<"**Upstream (this project depends on):**\n">> \o ListLines(related.upstream)
             ELSE <<>>)
            \o
            (IF related.downstream # <<>>
             THEN <<"**Downstream (depends on this project):**\n">>
                  \o ListLines(related.downstream)
             ELSE <<>>)
    IN IF output = <<>> THEN <<"No related projects defined.">> ELSE output

\* format_api
format_api(api) ==
    IF IsSome(api)
    THEN LET info == Unwrap(api)
             output ==
                 (IF IsSome(info.openapi)
                  THEN <<"**OpenAPI spec:** ", Unwrap(info.openapi), "\n">> ELSE <<>>)
                 \o
                 (IF IsSome(info.base_url)
                  THEN <<"**Base URL:** ", Unwrap(info.base_url), "\n">> ELSE <<>>)
                 \o
                 (IF info.endpoints # <<>>
                  THEN <<"**Endpoints:**\n">> \o ListLines(info.endpoints) ELSE <<>>)
         IN IF output = <<>> THEN <<"API section defined but empty.">> ELSE output
    ELSE <<"No API information defined.">>

\* format_concept
format_concept(path, name, concept) ==
    LET File(f) == <<"- ", path, "/", f, "\n">>
    IN <<"## ", name, "\n\n", concept.summary, "\n\n**Files:**\n">>
       \o ForEach(concept.files, File)

\* The "Project '{}' not found" error of every per-project tool.
ProjectNotFound(name) == Err(<<"Project '", name, "' not found">>)

\* tool_list_projects with the empty registry reported as a failure.
tool_list_projects_empty_is_error(ps, seed) ==
    IF DOMAIN ps = {}
    THEN Err(<<"No projects found. Make sure .jumble/project.toml files exist in your workspace.">>)
    ELSE LET Bullet(name) ==
                 LET lang == IF IsSome(ps[name].config.project.language)
                             THEN Unwrap(ps[name].config.project.language) ELSE "unknown"
                 IN <<"- **", name, "** (", lang, "): ", ps[name].config.project.description,
                      "\n  Path: ", ps[name].dir, "\n">>
         IN Ok(ForEach(IterKeys(ps, seed), Bullet))

\* Server::tool_list_projects
tool_list_projects(ps, seed) ==
    IF DOMAIN ps = {}
    THEN Ok(<<"No projects found. Make sure .jumble/project.toml files exist in your workspace.">>)
    ELSE LET Bullet(name) ==
                 LET lang == IF IsSome(ps[name].config.project.language)
                             THEN Unwrap(ps[name].config.project.language) ELSE "unknown"
                 IN <<"- **", name, "** (", lang, "): ", ps[name].config.project.description,
                      "\n  Path: ", ps[name].dir, "\n">>
         IN Ok(ForEach(IterKeys(ps, seed), Bullet))

\* tool_get_project_info whose match has no arm for an unknown field: the
\* overview is rendered for it.
tool_get_project_info_any_field(ps, seed, args) ==
    LET project_name == AsStr(args.project)
        field == AsStr(args.field)
    IN IF ~IsSome(project_name) THEN Err(<<"Missing 'project' argument">>)
       ELSE IF ~IsSome(MapGet(ps, Unwrap(project_name)))
       THEN ProjectNotFound(Unwrap(project_name))
       ELSE LET e == ps[Unwrap(project_name)]
                config == e.config
                Opt(label, o) == IF IsSome(o) THEN <<label, Unwrap(o), "\n">> ELSE <<>>
                Concept(name) == <<"- **", name, "**: ", config.concepts[name].summary, "\n">>
            IN IF field = Some("commands") THEN Ok(format_commands(config.commands, seed))
               ELSE IF field = Some("entry_points")
               THEN Ok(format_entry_points(config.entry_points, seed))
               ELSE IF field = Some("dependencies")
               THEN Ok(format_dependencies(config.dependencies))
               ELSE IF field = Some("api") THEN Ok(format_api(config.api))
               ELSE IF field = Some("related_projects")
               THEN Ok(format_related_projects(config.related_projects))
               ELSE Ok(<<"# ", config.project.name, "\n\n">>
                       \o <<"**Description:** ", config.project.description, "\n">>
                       \o Opt("**Language:** ", config.project.language)
                       \o Opt("**Version:** ", config.project.version)
                       \o Opt("**Repository:** ", config.project.repository)
                       \o <<"**Path:** ", e.dir, "\n">>
                       \o (IF DOMAIN config.entry_points # {}
                           THEN <<"\n## Entry Points\n">>
                                \o format_entry_points(config.entry_points, seed)
                           ELSE <<>>)
                       \o (IF DOMAIN config.concepts # {}
                           THEN <<"\n## Concepts\n">>
                                \o ForEach(IterKeys(config.concepts, seed), Concept)
                           ELSE <<>>))

\* Server::tool_get_project_info
tool_get_project_info(ps, seed, args) ==
    LET project_name == AsStr(args.project)
        field == AsStr(args.field)
    IN IF ~IsSome(project_name) THEN Err(<<"Missing 'project' argument">>)
       ELSE IF ~IsSome(MapGet(ps, Unwrap(project_name)))
       THEN ProjectNotFound(Unwrap(project_name))
       ELSE LET e == ps[Unwrap(project_name)]
                config == e.config
                Opt(label, o) == IF IsSome(o) THEN <<label, Unwrap(o), "\n">> ELSE <<>>
                Concept(name) == <<"- **", name, "**: ", config.concepts[name].summary, "\n">>
            IN IF field = Some("commands") THEN Ok(format_commands(config.commands, seed))
               ELSE IF field = Some("entry_points")
               THEN Ok(format_entry_points(config.entry_points, seed))
               ELSE IF field = Some("dependencies")
               THEN Ok(format_dependencies(config.dependencies))
               ELSE IF field = Some("api") THEN Ok(format_api(config.api))
               ELSE IF field = Some("related_projects")
               THEN Ok(format_related_projects(config.related_projects))
               ELSE IF IsSome(field) THEN Err(<<"Unknown field: ", Unwrap(field)>>)
               ELSE Ok(<<"# ", config.project.name, "\n\n">>
                       \o <<"**Description:** ", config.project.description, "\n">>
                       \o Opt("**Language:** ", config.project.language)
                       \o Opt("**Version:** ", config.project.version)
                       \o Opt("**Repository:** ", config.project.repository)
                       \o <<"**Path:** ", e.dir, "\n">>
                       \o (IF DOMAIN config.entry_points # {}
                           THEN <<"\n## Entry Points\n">>
                                \o format_entry_points(config.entry_points, seed)
                           ELSE <<>>)
                       \o (IF DOMAIN config.concepts # {}
                           THEN <<"\n## Concepts\n">>
                                \o ForEach(IterKeys(config.concepts, seed), Concept)
                           ELSE <<>>))

\* Server::tool_get_commands
tool_get_commands(ps, seed, args) ==
    LET project_name == AsStr(args.project)
        command_type == AsStr(args.command_type)
    IN IF ~IsSome(project_name) THEN Err(<<"Missing 'project' argument">>)
       ELSE IF ~IsSome(MapGet(ps, Unwrap(project_name)))
       THEN ProjectNotFound(Unwrap(project_name))
       ELSE LET config == ps[Unwrap(project_name)].config
            IN IF IsSome(command_type)
               THEN LET cmd == MapGet(config.commands, Unwrap(command_type))
                    IN IF IsSome(cmd)
                       THEN Ok(<<Unwrap(command_type), ": ", Unwrap(cmd)>>)
                       ELSE Err(<<"Command '", Unwrap(command_type),
                                  "' not found for project '", Unwrap(project_name), "'">>)
               ELSE Ok(format_commands(config.commands, seed))

\* The first key, in iteration order, that satisfies Test: a loop that returns
\* at its first match.
FirstMatch(ks, Test(_)) ==
    LET hits == SelectSeq(ks, Test)
    IN IF hits = <<>> THEN None ELSE Some(Head(hits))

\* tool_get_architecture with its two loops made one: the first key of the
\* iteration that matches case-folded or as a substring is taken.
tool_get_architecture_one_loop(ps, seed, args) ==
    LET project_name == AsStr(args.project)
        concept_name == AsStr(args.concept)
    IN IF ~IsSome(project_name) THEN Err(<<"Missing 'project' argument">>)
       ELSE IF ~IsSome(concept_name) THEN Err(<<"Missing 'concept' argument">>)
       ELSE IF ~IsSome(MapGet(ps, Unwrap(project_name)))
       THEN ProjectNotFound(Unwrap(project_name))
       ELSE LET e == ps[Unwrap(project_name)]
                concepts == e.config.concepts
                keys == IterKeys(concepts, seed)
                concept_lower == ToLowercase(Unwrap(concept_name))
                Either(name) ==
                    \/ ToLowercase(name) = concept_lower
                    \/ Contains(ToLowercase(name), concept_lower)
                    \/ Contains(ToLowercase(concepts[name].summary), concept_lower)
                either == FirstMatch(keys, Either)
            IN IF IsSome(MapGet(concepts, Unwrap(concept_name)))
               THEN Ok(format_concept(e.dir, Unwrap(concept_name),
                                      concepts[Unwrap(concept_name)]))
               ELSE IF IsSome(either)
               THEN Ok(format_concept(e.dir, Unwrap(either), concepts[Unwrap(either)]))
               ELSE Err(<<"Concept '", Unwrap(concept_name), "' not found. Available concepts: ">>
                        \o Join(keys))

\* Server::tool_get_architecture
tool_get_architecture(ps, seed, args) ==
    LET project_name == AsStr(args.project)
        concept_name == AsStr(args.concept)
    IN IF ~IsSome(project_name) THEN Err(<<"Missing 'project' argument">>)
       ELSE IF ~IsSome(concept_name) THEN Err(<<"Missing 'concept' argument">>)
       ELSE IF ~IsSome(MapGet(ps, Unwrap(project_name)))
       THEN ProjectNotFound(Unwrap(project_name))
       ELSE LET e == ps[Unwrap(project_name)]
                concepts == e.config.concepts
                keys == IterKeys(concepts, seed)
                concept_lower == ToLowercase(Unwrap(concept_name))
                SameFolded(name) == ToLowercase(name) = concept_lower
                Partial(name) ==
                    \/ Contains(ToLowercase(name), concept_lower)
                    \/ Contains(ToLowercase(concepts[name].summary), concept_lower)
                folded == FirstMatch(keys, SameFolded)
                partial == FirstMatch(keys, Partial)
            IN IF IsSome(MapGet(concepts, Unwrap(concept_name)))
               THEN Ok(format_concept(e.dir, Unwrap(concept_name),
                                      concepts[Unwrap(concept_name)]))
               ELSE IF IsSome(folded)
               THEN Ok(format_concept(e.dir, Unwrap(folded), concepts[Unwrap(folded)]))
               ELSE IF IsSome(partial)
               THEN Ok(format_concept(e.dir, Unwrap(partial), concepts[Unwrap(partial)]))
               ELSE Err(<<"Concept '", Unwrap(concept_name), "' not found. Available concepts: ">>
                        \o Join(keys))

\* tool_get_related_files keeping the first matching concept only.
tool_get_related_files_first(ps, seed, args) ==
    LET project_name == AsStr(args.project)
        query == AsStr(args.query)
    IN IF ~IsSome(project_name) THEN Err(<<"Missing 'project' argument">>)
       ELSE IF ~IsSome(query) THEN Err(<<"Missing 'query' argument">>)
       ELSE IF ~IsSome(MapGet(ps, Unwrap(project_name)))
       THEN ProjectNotFound(Unwrap(project_name))
       ELSE LET e == ps[Unwrap(project_name)]
                concepts == e.config.concepts
                query_lower == ToLowercase(Unwrap(query))
                Matches(name) ==
                    \/ Contains(ToLowercase(name), query_lower)
                    \/ Contains(ToLowercase(concepts[name].summary), query_lower)
                all == SelectSeq(IterKeys(concepts, seed), Matches)
                matched_files == IF all = <<>> THEN <<>> ELSE <<Head(all)>>
                File(name) == LET F(f) == <<"- ", e.dir, "/", f, "\n">>
                              IN ForEach(concepts[name].files, F)
                Section(name) ==
                    <<"## ", name, "\n", concepts[name].summary, "\n\nFiles:\n">>
                    \o File(name) \o <<"\n">>
            IN IF matched_files = <<>>
               THEN Err(<<"No concepts matching '", Unwrap(query), "' found">>)
               ELSE Ok(<<"Files related to '", Unwrap(query), "': \n\n">>
                       \o ForEach(matched_files, Section))

\* Server::tool_get_related_files
tool_get_related_files(ps, seed, args) ==
    LET project_name == AsStr(args.project)
        query == AsStr(args.query)
    IN IF ~IsSome(project_name) THEN Err(<<"Missing 'project' argument">>)
       ELSE IF ~IsSome(query) THEN Err(<<"Missing 'query' argument">>)
       ELSE IF ~IsSome(MapGet(ps, Unwrap(project_name)))
       THEN ProjectNotFound(Unwrap(project_name))
       ELSE LET e == ps[Unwrap(project_name)]
                concepts == e.config.concepts
                query_lower == ToLowercase(Unwrap(query))
                Matches(name) ==
                    \/ Contains(ToLowercase(name), query_lower)
                    \/ Contains(ToLowercase(concepts[name].summary), query_lower)
                matched_files == SelectSeq(IterKeys(concepts, seed), Matches)
                File(name) == LET F(f) == <<"- ", e.dir, "/", f, "\n">>
                              IN ForEach(concepts[name].files, F)
                Section(name) ==
                    <<"## ", name, "\n", concepts[name].summary, "\n\nFiles:\n">>
                    \o File(name) \o <<"\n">>
            IN IF matched_files = <<>>
               THEN Err(<<"No concepts matching '", Unwrap(query), "' found">>)
               ELSE Ok(<<"Files related to '", Unwrap(query), "': \n\n">>
                       \o ForEach(matched_files, Section))

\* Server::tool_list_prompts
tool_list_prompts(ps, seed, args) ==
    LET project_name == AsStr(args.project)
    IN IF ~IsSome(project_name) THEN Err(<<"Missing 'project' argument">>)
       ELSE IF ~IsSome(MapGet(ps, Unwrap(project_name)))
       THEN ProjectNotFound(Unwrap(project_name))
       ELSE LET prompts == ps[Unwrap(project_name)].prompts.prompts
                Bullet(name) == <<"- ", name, "\n">>
            IN IF DOMAIN prompts = {}
               THEN Ok(<<"No prompts found for '", Unwrap(project_name),
                         "'. Create .jumble/prompts/*.md files to add task-specific context.">>)
               ELSE Ok(<<"Available prompts for '", Unwrap(project_name), "':\n\n">>
                       \o ForEach(IterKeys(prompts, seed), Bullet)
                       \o <<"\nUse get_prompt(project, topic) to retrieve a specific prompt.">>)

\* The content of a prompt file as it was when the last pass found it.
ReadPromptFile_cached(fs, path) ==
    LET files == PromptLayouts[passDisk[path.dir].prompts]
    IN IF path.file \in DOMAIN files
       THEN Some(files[path.file]) ELSE None

\* std::fs::read_to_string of a prompt file, on the disk as it is now: it fails
\* when the file is no longer there.
ReadPromptFile(fs, path) ==
    LET files == PromptLayouts[fs[path.dir].prompts]
    IN IF path.file \in DOMAIN files
       THEN Some(files[path.file]) ELSE None

\* Server::tool_get_prompt
tool_get_prompt(ps, seed, fs, args) ==
    LET project_name == AsStr(args.project)
        topic == AsStr(args.topic)
    IN IF ~IsSome(project_name) THEN Err(<<"Missing 'project' argument">>)
       ELSE IF ~IsSome(topic) THEN Err(<<"Missing 'topic' argument">>)
       ELSE IF ~IsSome(MapGet(ps, Unwrap(project_name)))
       THEN ProjectNotFound(Unwrap(project_name))
       ELSE LET prompts == ps[Unwrap(project_name)].prompts.prompts
                prompt_path == MapGet(prompts, Unwrap(topic))
                available == IterKeys(prompts, seed)
            IN IF ~IsSome(prompt_path)
               THEN IF available = <<>>
                    THEN Err(<<"No prompts found for '", Unwrap(project_name), "'">>)
                    ELSE Err(<<"Prompt '", Unwrap(topic), "' not found. Available: ">>
                             \o Join(available))
               ELSE LET content == ReadPromptFile(fs, Unwrap(prompt_path))
                    IN IF IsSome(content) THEN Ok(<<Unwrap(content)>>)
                       ELSE Err(<<"Failed to read prompt: ", "io error">>)

\* The "## name\n text\n\n" entries of a conventions or gotchas map.
Entries(m, seed) ==
    LET Entry(name) == <<"## ", name, "\n", m[name], "\n\n">>
    IN ForEach(IterKeys(m, seed), Entry)

\* The category match without its last arm: a category that is neither of the two
\* is taken as none given.
RenderCategory_lenient(category, conv, gotch, seed, convHead, gotchHead, noConv, noGotch) ==
    LET has_conventions == DOMAIN conv # {}
        has_gotchas == DOMAIN gotch # {}
    IN IF category = Some("conventions")
       THEN IF ~has_conventions THEN Ok(noConv) ELSE Ok(convHead \o Entries(conv, seed))
       ELSE IF category = Some("gotchas")
       THEN IF ~has_gotchas THEN Ok(noGotch) ELSE Ok(gotchHead \o Entries(gotch, seed))
       ELSE Ok((IF has_conventions THEN convHead \o Entries(conv, seed) ELSE <<>>)
               \o (IF has_gotchas THEN gotchHead \o Entries(gotch, seed) ELSE <<>>))

\* The category match shared by tool_get_conventions and
\* tool_get_workspace_conventions: conv and gotch are the two maps, convHead
\* and gotchHead the section titles, noConv and noGotch the advisories.
RenderCategory(category, conv, gotch, seed, convHead, gotchHead, noConv, noGotch) ==
    LET has_conventions == DOMAIN conv # {}
        has_gotchas == DOMAIN gotch # {}
    IN IF category = Some("conventions")
       THEN IF ~has_conventions THEN Ok(noConv) ELSE Ok(convHead \o Entries(conv, seed))
       ELSE IF category = Some("gotchas")
       THEN IF ~has_gotchas THEN Ok(noGotch) ELSE Ok(gotchHead \o Entries(gotch, seed))
       ELSE IF ~IsSome(category)
       THEN Ok((IF has_conventions THEN convHead \o Entries(conv, seed) ELSE <<>>)
               \o (IF has_gotchas THEN gotchHead \o Entries(gotch, seed) ELSE <<>>))
       ELSE Err(<<"Unknown category '", Unwrap(category), "'. Use 'conventions' or 'gotchas'.">>)

\* Server::tool_get_conventions
tool_get_conventions(ps, seed, args) ==
    LET project_name == AsStr(args.project)
        category == AsStr(args.category)
    IN IF ~IsSome(project_name) THEN Err(<<"Missing 'project' argument">>)
       ELSE IF ~IsSome(MapGet(ps, Unwrap(project_name)))
       THEN ProjectNotFound(Unwrap(project_name))
       ELSE LET c == ps[Unwrap(project_name)].conventions
            IN IF DOMAIN c.conventions = {} /\ DOMAIN c.gotchas = {}
               THEN Ok(<<"No conventions found for '", Unwrap(project_name),
                         "'. Create .jumble/conventions.toml to add project-specific conventions and gotchas.">>)
               ELSE RenderCategory(category, c.conventions, c.gotchas, seed,
                        <<"# Conventions for '", Unwrap(project_name), "'\n\n">>,
                        <<"# Gotchas for '", Unwrap(project_name), "'\n\n">>,
                        <<"No conventions defined.">>,
                        <<"No gotchas defined.">>)

\* tool_get_docs looking the topic up before it asks whether anything is indexed.
tool_get_docs_topic_first(ps, seed, args) ==
    LET project_name == AsStr(args.project)
        topic == AsStr(args.topic)
    IN IF ~IsSome(project_name) THEN Err(<<"Missing 'project' argument">>)
       ELSE IF ~IsSome(MapGet(ps, Unwrap(project_name)))
       THEN ProjectNotFound(Unwrap(project_name))
       ELSE LET e == ps[Unwrap(project_name)]
                docs == e.docs.docs
                Bullet(name) == <<"- **", name, "**: ", docs[name].summary, "\n">>
            IN IF IsSome(topic)
               THEN IF IsSome(MapGet(docs, Unwrap(topic)))
                    THEN Ok(<<"## ", Unwrap(topic), "\n**Summary:** ",
                              docs[Unwrap(topic)].summary, "\n**Path:** ",
                              e.dir, "/", docs[Unwrap(topic)].path>>)
                    ELSE Err(<<"Doc '", Unwrap(topic), "' not found. Available: ">>
                             \o Join(IterKeys(docs, seed)))
               ELSE IF DOMAIN docs = {}
               THEN Ok(<<"No documentation index found for '", Unwrap(project_name),
                         "'. Create .jumble/docs.toml to index project documentation.">>)
               ELSE Ok(<<"# Documentation for '", Unwrap(project_name), "'\n\n">>
                       \o ForEach(IterKeys(docs, seed), Bullet)
                       \o <<"\nUse get_docs(project, topic) to get the path to a specific doc.">>)

\* Server::tool_get_docs
tool_get_docs(ps, seed, args) ==
    LET project_name == AsStr(args.project)
        topic == AsStr(args.topic)
    IN IF ~IsSome(project_name) THEN Err(<<"Missing 'project' argument">>)
       ELSE IF ~IsSome(MapGet(ps, Unwrap(project_name)))
       THEN ProjectNotFound(Unwrap(project_name))
       ELSE LET e == ps[Unwrap(project_name)]
                docs == e.docs.docs
                Bullet(name) == <<"- **", name, "**: ", docs[name].summary, "\n">>
            IN IF DOMAIN docs = {}
               THEN Ok(<<"No documentation index found for '", Unwrap(project_name),
                         "'. Create .jumble/docs.toml to index project documentation.">>)
               ELSE IF IsSome(topic)
               THEN IF IsSome(MapGet(docs, Unwrap(topic)))
                    THEN Ok(<<"## ", Unwrap(topic), "\n**Summary:** ",
                              docs[Unwrap(topic)].summary, "\n**Path:** ",
                              e.dir, "/", docs[Unwrap(topic)].path>>)
                    ELSE Err(<<"Doc '", Unwrap(topic), "' not found. Available: ">>
                             \o Join(IterKeys(docs, seed)))
               ELSE Ok(<<"# Documentation for '", Unwrap(project_name), "'\n\n">>
                       \o ForEach(IterKeys(docs, seed), Bullet)
                       \o <<"\nUse get_docs(project, topic) to get the path to a specific doc.">>)

\* The root directory the server was started on, as Path::display shows it.
Root == "/ws"

\* Vec::sort of the keys of a map: KeyOrder lists the keys in lexicographic order.
SortedKeys(m) ==
    LET InMap(k) == k \in DOMAIN m
    IN SelectSeq(KeyOrder, InMap)

\* Server::tool_get_workspace_overview
tool_get_workspace_overview(ws, ps) ==
    LET header ==
            IF IsSome(ws)
            THEN (IF IsSome(Unwrap(ws).workspace.name)
                  THEN <<"# ", Unwrap(Unwrap(ws).workspace.name), "\n\n">>
                  ELSE <<"# Workspace Overview\n\n">>)
                 \o (IF IsSome(Unwrap(ws).workspace.description)
                     THEN <<Unwrap(Unwrap(ws).workspace.description), "\n\n">> ELSE <<>>)
            ELSE <<"# Workspace Overview\n\n">>
        root == <<"**Root:** ", Root, "\n\n">>
        project_names == SortedKeys(ps)
        Bullet(name) ==
            LET lang == IF IsSome(ps[name].config.project.language)
                        THEN Unwrap(ps[name].config.project.language) ELSE "unknown"
            IN <<"- **", name, "** (", lang, "): ", ps[name].config.project.description, "\n">>
        Related(name) ==
            LET upstream == ps[name].config.related_projects.upstream
                downstream == ps[name].config.related_projects.downstream
            IN IF upstream # <<>> \/ downstream # <<>>
               THEN <<"**", name, "**:\n">>
                    \o (IF upstream # <<>>
                        THEN <<"  <- depends on: ">> \o Join(upstream) \o <<"\n">> ELSE <<>>)
                    \o (IF downstream # <<>>
                        THEN <<"  -> used by: ">> \o Join(downstream) \o <<"\n">> ELSE <<>>)
               ELSE <<>>
        deps == ForEach(project_names, Related)
    IN IF DOMAIN ps = {}
       THEN Ok(header \o root \o <<"No projects found.\n">>)
       ELSE Ok(header \o root \o <<"## Projects\n\n">>
               \o ForEach(project_names, Bullet)
               \o <<"\n## Dependencies\n\n">>
               \o (IF deps = <<>> THEN <<"No cross-project dependencies defined.\n">> ELSE deps)
               \o (IF IsSome(ws)
                   THEN <<"\n*Use get_workspace_conventions() for workspace-wide coding standards.*">>
                   ELSE <<>>))

\* tool_get_workspace_conventions reading the category before it asks for the
\* workspace.
tool_get_workspace_conventions_category_first(ws, seed, args) ==
    IF IsSome(AsStr(args.category)) /\ Unwrap(AsStr(args.category)) \notin {"conventions", "gotchas"}
    THEN Err(<<"Unknown category '", Unwrap(AsStr(args.category)), "'. Use 'conventions' or 'gotchas'.">>)
    ELSE IF ~IsSome(ws)
    THEN Err(<<"No workspace.toml found. Create .jumble/workspace.toml at the workspace root to define workspace-level conventions.">>)
    ELSE LET w == Unwrap(ws)
             category == AsStr(args.category)
             ws_name == IF IsSome(w.workspace.name) THEN Unwrap(w.workspace.name)
                        ELSE "Workspace"
         IN IF DOMAIN w.conventions = {} /\ DOMAIN w.gotchas = {}
            THEN Ok(<<"Workspace config exists but no conventions or gotchas defined.">>)
            ELSE RenderCategory(category, w.conventions, w.gotchas, seed,
                     <<"# ", ws_name, " Conventions\n\n">>,
                     <<"# ", ws_name, " Gotchas\n\n">>,
                     <<"No workspace conventions defined.">>,
                     <<"No workspace gotchas defined.">>)

\* Server::tool_get_workspace_conventions
tool_get_workspace_conventions(ws, seed, args) ==
    IF ~IsSome(ws)
    THEN Err(<<"No workspace.toml found. Create .jumble/workspace.toml at the workspace root to define workspace-level conventions.">>)
    ELSE LET w == Unwrap(ws)
             category == AsStr(args.category)
             ws_name == IF IsSome(w.workspace.name) THEN Unwrap(w.workspace.name)
                        ELSE "Workspace"
         IN IF DOMAIN w.conventions = {} /\ DOMAIN w.gotchas = {}
            THEN Ok(<<"Workspace config exists but no conventions or gotchas defined.">>)
            ELSE RenderCategory(category, w.conventions, w.gotchas, seed,
                     <<"# ", ws_name, " Conventions\n\n">>,
                     <<"# ", ws_name, " Gotchas\n\n">>,
                     <<"No workspace conventions defined.">>,
                     <<"No workspace gotchas defined.">>)

\* ------------------------------------------------------------- dispatcher

\* The keys a tool reads from its arguments object.
ArgKeys == {"project", "field", "command_type", "concept", "query", "topic", "category"}

\* json!({}): an arguments object without any key.
NoArgs == [k \in ArgKeys |-> Absent]

\* JsonRpcError
RpcError(code, message) == [code |-> code, message |-> message, data |-> None]

\* A server that runs a discovery pass on every tools/call.
RegistryAfterCall_hot(name) == reload_workspace_and_projects

\* The registry a tools/call leaves behind: reload_workspace runs a discovery
\* pass, every other tool only reads the registry.
RegistryAfterCall(name) ==
    IF name = Some("reload_workspace")
    THEN reload_workspace_and_projects
    ELSE [workspace |-> workspace, projects |-> projects]

\* The match on the tool name in Server::handle_tools_call: Result<String, String>.
\* self is the server (its workspace, its projects and the iteration order of
\* their maps), fs the file system the tool reads.
CallTool(self, name, arguments, fs) ==
    LET ps == self.projects
        seed == self.hashSeed
    IN CASE name = "reload_workspace" ->
                IF discover_projects_is_ok(fs)
                THEN Ok(<<"Workspace and projects reloaded from disk.">>)
                ELSE Err(<<"Failed to reload workspace: ", "e">>)
         [] name = "list_projects" -> tool_list_projects(ps, seed)
         [] name = "get_project_info" -> tool_get_project_info(ps, seed, arguments)
         [] name = "get_commands" -> tool_get_commands(ps, seed, arguments)
         [] name = "get_architecture" -> tool_get_architecture(ps, seed, arguments)
         [] name = "get_related_files" -> tool_get_related_files(ps, seed, arguments)
         [] name = "list_prompts" -> tool_list_prompts(ps, seed, arguments)
         [] name = "get_prompt" -> tool_get_prompt(ps, seed, fs, arguments)
         [] name = "get_conventions" -> tool_get_conventions(ps, seed, arguments)
         [] name = "get_docs" -> tool_get_docs(ps, seed, arguments)
         [] name = "get_workspace_overview" -> tool_get_workspace_overview(self.workspace, ps)
         [] name = "get_workspace_conventions" ->
                tool_get_workspace_conventions(self.workspace, seed, arguments)
         [] OTHER -> Err(<<"Unknown tool: ", name>>)

\* The payload of a tools/call result: a text block, flagged when the tool failed.
ToolPayload(result) ==
    IF result.ok
    THEN [content |-> <<[type |-> "text", text |-> result.text]>>]
    ELSE [content |-> <<[type |-> "text", text |-> <<"Error: ">> \o result.text]>>,
          isError |-> TRUE]

\* handle_tools_call with `?` on the tool's result: a failed tool becomes a
\* JsonRpcError.
handle_tools_call_raising(self, params, fs) ==
    LET name == IF params.kind = "object" THEN AsStr(params.name) ELSE None
        arguments == IF params.kind = "object" /\ IsSome(params.arguments)
                     THEN Unwrap(params.arguments) ELSE NoArgs
        result == CallTool(self, Unwrap(name), arguments, fs)
    IN IF ~IsSome(name)
       THEN [ok |-> FALSE, error |-> RpcError(-32602, <<"Missing 'name' parameter">>)]
       ELSE IF result.ok THEN [ok |-> TRUE, value |-> ToolPayload(result)]
       ELSE [ok |-> FALSE, error |-> RpcError(-32603, result.text)]

\* Server::handle_tools_call: Result<Value, JsonRpcError>
handle_tools_call(self, params, fs) ==
    LET name == IF params.kind = "object" THEN AsStr(params.name) ELSE None
        arguments == IF params.kind = "object" /\ IsSome(params.arguments)
                     THEN Unwrap(params.arguments) ELSE NoArgs
    IN IF ~IsSome(name)
       THEN [ok |-> FALSE, error |-> RpcError(-32602, <<"Missing 'name' parameter">>)]
       ELSE [ok |-> TRUE, value |-> ToolPayload(CallTool(self, Unwrap(name), arguments, fs))]

\* The names of the catalog returned by tools/list.
ToolCatalog ==
    <<"list_projects", "get_project_info", "get_commands", "get_architecture",
      "get_related_files", "list_prompts", "get_prompt", "get_conventions", "get_docs",
      "get_workspace_overview", "get_workspace_conventions">>

\* Server::handle_initialize
handle_initialize ==
    [ok |-> TRUE,
     value |-> [protocolVersion |-> "2024-11-05",
                capabilities |-> [tools |-> EmptyMap],
                serverInfo |-> [name |-> "jumble", version |-> "CARGO_PKG_VERSION"]]]

\* Server::handle_tools_list
handle_tools_list == [ok |-> TRUE, value |-> [tools |-> ToolCatalog]]

\* The match on the method without its last arm's error: a method the server
\* does not know is answered like "initialized".
Dispatch_lenient(self, request, fs) ==
    CASE request.method = "initialize" -> handle_initialize
      [] request.method = "tools/list" -> handle_tools_list
      [] request.method = "tools/call" -> handle_tools_call(self, request.params, fs)
      [] OTHER -> [ok |-> TRUE, value |-> EmptyMap]

\* The match on the method in Server::handle_request.
Dispatch(self, request, fs) ==
    CASE request.method = "initialize" -> handle_initialize
      [] request.method = "initialized" -> [ok |-> TRUE, value |-> EmptyMap]
      [] request.method = "tools/list" -> handle_tools_list
      [] request.method = "tools/call" -> handle_tools_call(self, request.params, fs)
      [] OTHER -> [ok |-> FALSE,
                   error |-> RpcError(-32601, <<"Method not found: ", request.method>>)]

\* handle_request building the error response with a null result beside the error.
handle_request_both(self, request, fs) ==
    LET result == Dispatch(self, request, fs)
    IN IF result.ok
       THEN [jsonrpc |-> "2.0", id |-> request.id, result |-> Some(result.value), error |-> None]
       ELSE [jsonrpc |-> "2.0", id |-> request.id, result |-> Some("null"),
             error |-> Some(result.error)]

\* Server::handle_request: the JsonRpcResponse for a request.
handle_request(self, request, fs) ==
    LET result == Dispatch(self, request, fs)
    IN IF result.ok
       THEN [jsonrpc |-> "2.0", id |-> request.id, result |-> Some(result.value), error |-> None]
       ELSE [jsonrpc |-> "2.0", id |-> request.id, result |-> None, error |-> Some(result.error)]

\* The registry after Server::handle_request: only tools/call can change it.
RegistryAfterRequest(request) ==
    IF request.method = "tools/call" /\ request.params.kind = "object"
    THEN RegistryAfterCall(AsStr(request.params.name))
    ELSE [workspace |-> workspace, projects |-> projects]

\* ---------------------------------------------------------------- transport

\* serde_json::from_str::<JsonRpcRequest>: jsonrpc and method must be strings,
\* an id that is missing or null becomes None, missing params become Null.
ParseRequest(l) ==
    IF l.kind = "json" /\ l.jsonrpc.t = "str" /\ l.method.t = "str"
    THEN Some([jsonrpc |-> l.jsonrpc.s,
               id |-> IF l.id.t \in {"absent", "null"} THEN None ELSE Some(l.id),
               method |-> l.method.s,
               params |-> IF l.params.kind = "absent"
                          THEN [l.params EXCEPT !.kind = "null"] ELSE l.params])
    ELSE None

\* serde_json::to_string(&JsonRpcResponse): a field that is None is left out.
Serialize(r) ==
    [k \in {"jsonrpc"}
           \cup (IF IsSome(r.id) THEN {"id"} ELSE {})
           \cup (IF IsSome(r.result) THEN {"result"} ELSE {})
           \cup (IF IsSome(r.error) THEN {"error"} ELSE {}) |->
        CASE k = "jsonrpc" -> r.jsonrpc
          [] k = "id" -> Unwrap(r.id)
          [] k = "result" -> Unwrap(r.result)
          [] k = "error" -> Unwrap(r.error)]

\* main answering a line that does not parse as it would an invalid request.
ParseErrorResponse_invalid_request ==
    [jsonrpc |-> "2.0", id |-> None, result |-> None,
     error |-> Some(RpcError(-32600, <<"Invalid Request: ", "serde_json error">>))]

\* The response main writes for a line that does not parse.
ParseErrorResponse ==
    [jsonrpc |-> "2.0", id |-> None, result |-> None,
     error |-> Some(RpcError(-32700, <<"Parse error: ", "serde_json error">>))]

\* ------------------------------------------------------------------ inputs
\* The input lines the model feeds to the server.

\* A line that is a JSON object with these fields (Absent: the field is missing).
JsonLine(jsonrpc, id, method, params) ==
    [kind |-> "json", jsonrpc |-> jsonrpc, id |-> id, method |-> method, params |-> params]

\* A line that is not a JSON object: "empty" is the line of no characters,
\* "spaces" a line of white space only, "garbage" text that is not JSON.
TextLine(kind) ==
    [kind |-> kind, jsonrpc |-> Absent, id |-> Absent, method |-> Absent,
     params |-> [kind |-> "absent", name |-> Absent, arguments |-> None]]

NoParams == [kind |-> "absent", name |-> Absent, arguments |-> None]
CallParams(name, arguments) == [kind |-> "object", name |-> name, arguments |-> arguments]

\* An arguments object with the given project and one more key.
ArgsWith(project, key, value) ==
    [k \in ArgKeys |-> IF k = "project" THEN project ELSE IF k = key THEN value ELSE Absent]

Ids == {Absent, JNull, JNum("7"), JStr("a")}

\* The second argument each per-project tool reads, and the values tried for it.
SecondArg ==
    ("get_project_info" :> [key |-> "field",
         values |-> {"commands", "entry_points", "dependencies", "api",
                     "related_projects", "bogus"}]) @@
    ("get_commands" :> [key |-> "command_type", values |-> {"build", "bogus"}]) @@
    ("get_architecture" :> [key |-> "concept",
         values |-> {"Auth", "auth", "AUTH", "rout", "login", "h", "zzz"}]) @@
    ("get_related_files" :> [key |-> "query", values |-> {"h", "AUTH", "login", "zzz"}]) @@
    ("list_prompts" :> [key |-> "topic", values |-> {}]) @@
    ("get_prompt" :> [key |-> "topic", values |-> {"add", "bogus"}]) @@
    ("get_conventions" :> [key |-> "category", values |-> {"conventions", "gotchas", "bogus"}]) @@
    ("get_docs" :> [key |-> "topic", values |-> {"guide", "bogus"}])

\* The tools that ask for their second argument before they look the project up.
NeedsSecondArg == {"get_architecture", "get_related_files", "get_prompt"}

\* tools/call parameters: every tool, with good, bad and missing arguments.
ToolCalls ==
    {CallParams(JStr(n), None) :
        n \in {"reload_workspace", "list_projects", "get_workspace_overview",
               "get_workspace_conventions", "no_such_tool"}}
    \cup {CallParams(JStr("get_workspace_conventions"), Some(ArgsWith(Absent, "category", JStr(c)))) :
        c \in {"conventions", "gotchas", "bogus"}}
    \cup {CallParams(JStr(n), Some(ArgsWith(Absent, SecondArg[n].key, Absent))) :
        n \in {"get_project_info", "get_prompt", "get_docs"}}
    \cup {CallParams(JStr(n), Some(ArgsWith(JStr("app"), SecondArg[n].key, Absent))) :
        n \in DOMAIN SecondArg}
    \cup {CallParams(JStr(n), Some(ArgsWith(JStr("lib"), SecondArg[n].key, Absent))) :
        n \in {"get_project_info", "list_prompts", "get_conventions", "get_docs"}}
    \cup {CallParams(JStr(n), Some(ArgsWith(JStr("ghost"), SecondArg[n].key, Absent))) :
        n \in {"get_project_info", "get_commands"}}
    \cup UNION {{CallParams(JStr(n), Some(ArgsWith(JStr("app"), SecondArg[n].key, JStr(v)))) :
                    v \in SecondArg[n].values} :
                n \in DOMAIN SecondArg}
    \cup {CallParams(JStr("get_project_info"), Some(ArgsWith(JStr("ghost"), "field", JStr(f)))) :
            f \in {"commands", "bogus"}}
    \cup {CallParams(JStr("get_architecture"), Some(ArgsWith(JStr("ghost"), "concept", JStr("Auth")))),
          CallParams(JStr("get_prompt"), Some(ArgsWith(JStr("ghost"), "topic", JStr("add"))))}
    \cup {CallParams(Absent, None), CallParams(JNum("42"), None)}

\* The lines fed to the server: every kind of id on a success and on an error,
\* every method, every tool call, and lines that are no request at all.
Lines ==
    {TextLine(k) : k \in {"empty", "spaces", "garbage"}}
    \cup {JsonLine(JStr("2.0"), JNum("7"), Absent, NoParams)}
    \cup {JsonLine(JStr("2.0"), i, JStr(m), NoParams) : i \in Ids, m \in {"initialize", "ping"}}
    \cup {JsonLine(JStr("2.0"), JNum("7"), JStr(m), NoParams) :
            m \in {"initialized", "tools/list", "tools/call"}}
    \cup {JsonLine(JStr("2.0"), JNum("7"), JStr("tools/call"), c) : c \in ToolCalls}

\* ------------------------------------------------------------ state machine

\* No jumble setup command has been run.
NoSetup == [trees |-> <<>>, cmds |-> <<>>]

\* The directory tree the server is started on: directory a holds the project
\* app with all its files, directory b a descriptor that does not parse.
InitDisks ==
    {[d \in Dirs |->
        IF d = "a"
        THEN [project |-> "A1", conventions |-> "CV1", docs |-> "DX1", prompts |-> "add-v1"]
        ELSE [project |-> "garbage", conventions |-> "absent", docs |-> "absent",
              prompts |-> "nodir"]]}

\* The iteration order of the maps Server::new builds: the orders are told apart
\* by how they differ from this one.
StartupSeed == 0

\* main: Server::new runs the first discovery pass before any line is read.
Init ==
    /\ disk \in InitDisks
    /\ wsFile = "W1"
    /\ walkOrder \in Perms(Dirs)
    /\ hashSeed = StartupSeed
    /\ workspace = load_workspace_static(wsFile)
    /\ projects = discover_projects(EmptyMap, walkOrder, disk)
    /\ line = TextLine("none")
    /\ response = None
    /\ passDisk = disk
    /\ passWs = wsFile
    /\ edits = 0
    /\ setup = NoSetup

\* The server as it is now: self.
Server == [workspace |-> workspace, projects |-> projects, hashSeed |-> hashSeed]

\* Whether the request is a tools/call of reload_workspace.
IsReload(request) ==
    /\ request.method = "tools/call"
    /\ request.params.kind = "object"
    /\ AsStr(request.params.name) = Some("reload_workspace")

\* No line is being processed: main is at the head of its loop.
NoLine == TextLine("none")
AtLoopHead == line = NoLine

\* main without the test for the empty line: the line goes to the parser.
ReadEmptyLine_parsed ==
    /\ AtLoopHead
    /\ line' = TextLine("empty")
    /\ response' = Some(Serialize(ParseErrorResponse))
    /\ UNCHANGED <<setup, disk, wsFile, walkOrder, workspace, projects, hashSeed,
                   passDisk, passWs, edits>>

\* main reads an empty line: nothing is written.
ReadEmptyLine ==
    /\ AtLoopHead
    /\ line' = TextLine("empty")
    /\ response' = None
    /\ UNCHANGED <<setup, disk, wsFile, walkOrder, workspace, projects, hashSeed,
                   passDisk, passWs, edits>>

\* main reads a line that is no request: it writes a parse error.
ReadBadLine ==
    \E l \in Lines :
        /\ AtLoopHead
        /\ l.kind # "empty"
        /\ ~IsSome(ParseRequest(l))
        /\ line' = l
        /\ response' = Some(Serialize(ParseErrorResponse))
        /\ UNCHANGED <<setup, disk, wsFile, walkOrder, workspace, projects, hashSeed,
                       passDisk, passWs, edits>>

\* main reads a request: Server::handle_request answers it, and the response is
\* written.  The maps of a new registry are iterated in an order of their own.
ReadRequest ==
    \E l \in Lines :
        /\ AtLoopHead
        /\ l.kind # "empty"
        /\ IsSome(ParseRequest(l))
        /\ LET request == Unwrap(ParseRequest(l))
               after == RegistryAfterRequest(request)
           IN /\ line' = l
              /\ response' = Some(Serialize(handle_request(Server, request, disk)))
              /\ workspace' = after.workspace
              /\ projects' = after.projects
              /\ IF IsReload(request)
                 THEN /\ hashSeed' \in Seeds
                      /\ passDisk' = disk
                      /\ passWs' = wsFile
                 ELSE UNCHANGED <<hashSeed, passDisk, passWs>>
              /\ UNCHANGED <<setup, disk, wsFile, walkOrder, edits>>

\* The loop body ends: line and response go out of scope and main is back at
\* the head of its loop.
EndIteration ==
    /\ ~AtLoopHead
    /\ line' = NoLine
    /\ response' = None
    /\ UNCHANGED <<setup, disk, wsFile, walkOrder, workspace, projects, hashSeed,
                   passDisk, passWs, edits>>

\* The environment changes the tree while the server waits for a line.  (The
\* server reads the disk only inside ReadRequest, so a change made while a
\* response is in flight is the same as one made before the next read.)
CanEdit == AtLoopHead /\ edits < MaxDiskEdits

\* The environment writes, replaces or removes one file of a project directory.
EditFile(d, facet, content) ==
    /\ CanEdit
    /\ disk[d][facet] # content
    /\ disk' = [disk EXCEPT ![d][facet] = content]
    /\ edits' = edits + 1
    /\ UNCHANGED <<setup, wsFile, walkOrder, workspace, projects, hashSeed, line, response,
                   passDisk, passWs>>

\* The descriptors the environment puts into each directory: one of the two
\* descriptors of app, the descriptor of lib, a file that does not parse or
\* cannot be read, or none.
ProjectFilesOf ==
    ("a" :> {"absent", "unreadable", "garbage", "A1", "A2"}) @@
    ("b" :> {"absent", "unreadable", "garbage", "A2", "B"})

\* The directories whose conventions, docs and prompts the environment edits.
AuxDirs == {"a"}

EditProject == \E d \in Dirs : \E c \in ProjectFilesOf[d] : EditFile(d, "project", c)
EditConventions == \E d \in AuxDirs, c \in ConventionsFiles : EditFile(d, "conventions", c)
EditDocs == \E d \in AuxDirs, c \in DocsFiles : EditFile(d, "docs", c)
EditPrompts == \E d \in AuxDirs, c \in PromptDirs : EditFile(d, "prompts", c)

\* The environment writes, replaces or removes <root>/.jumble/workspace.toml.
EditWorkspace ==
    \E c \in WorkspaceFiles :
        /\ CanEdit
        /\ wsFile # c
        /\ wsFile' = c
        /\ edits' = edits + 1
        /\ UNCHANGED <<setup, disk, walkOrder, workspace, projects, hashSeed, line, response,
                       passDisk, passWs>>

Next ==
    \/ ReadEmptyLine
    \/ ReadBadLine
    \/ ReadRequest
    \/ EndIteration
    \/ EditProject
    \/ EditConventions
    \/ EditDocs
    \/ EditPrompts
    \/ EditWorkspace

Spec == Init /\ [][Next]_vars

\* ------------------------------------------------- the server on other trees
\* The server started on each of a set of trees and fed the lines, the tree
\* staying as it is.

\* The trees: directory a holds one of two descriptors of app, and each of its
\* conventions.toml, docs.toml and prompts directory is missing, unreadable,
\* malformed or well; directory b holds lib and nothing else. And the trees
\* without a project: each directory has no descriptor or one that cannot be
\* read or parsed.  The root that holds no descriptor at all is also tried
\* without a workspace.toml: a root with nothing in it, or one that is gone.
TreeDisks ==
    {[d \in Dirs |->
        IF d = "a"
        THEN [project |-> p, conventions |-> c, docs |-> x, prompts |-> l]
        ELSE [project |-> "B", conventions |-> "absent", docs |-> "absent",
              prompts |-> "nodir"]] :
        p \in {"A1", "A3"},
        c \in {"absent", "unreadable", "garbage", "CV1"},
        x \in {"absent", "unreadable", "garbage", "DX1"},
        l \in {"nodir", "locked", "add-v1"}}
    \cup {[d \in Dirs |->
              [project |-> f[d], conventions |-> "absent", docs |-> "absent",
               prompts |-> "nodir"]] :
          f \in [Dirs -> {"absent", "unreadable", "garbage"}]}

\* main on one of the trees: Server::new runs the first pass.
InitTrees ==
    /\ disk \in TreeDisks
    /\ wsFile \in IF \A d \in Dirs : ~WalkFinds(disk, d) THEN {"W1", "absent"} ELSE {"W1"}
    /\ walkOrder \in Perms(Dirs)
    /\ hashSeed = StartupSeed
    /\ workspace = load_workspace_static(wsFile)
    /\ projects = discover_projects(EmptyMap, walkOrder, disk)
    /\ line = TextLine("none")
    /\ response = None
    /\ passDisk = disk
    /\ passWs = wsFile
    /\ edits = 0
    /\ setup = NoSetup

NextLines ==
    \/ ReadEmptyLine
    \/ ReadBadLine
    \/ ReadRequest
    \/ EndIteration

SpecTrees == InitTrees /\ [][NextLines]_vars

\* -------------------------------------------------------------------- setup
\* jumble setup init and jumble setup warp [--force]: each is one run of the
\* binary on a workspace root; the server is not started.  A file is "absent"
\* or its content; WARP.md is None or the text in it, a text being its lines
\* and whether the last of them is ended by a newline.

\* How many setup commands are run in a row.
MaxSetupRuns == 2

JUMBLE_SECTION_MARKER == "## Using Jumble for Project Context"

\* What str::starts_with and str::contains say of the lines below, for the
\* patterns setup.rs asks about.
LineFacts ==
    ("" :> [starts |-> {}, contains |-> {}]) @@
    ("# WARP.md" :> [starts |-> {"# ", "# WARP"}, contains |-> {}]) @@
    ("This file provides guidance to WARP (warp.dev) when working with code in this repository." :>
        [starts |-> {}, contains |-> {}]) @@
    ("## Using Jumble for Project Context" :>
        [starts |-> {"## ", JUMBLE_SECTION_MARKER},
         contains |-> {"Using Jumble", JUMBLE_SECTION_MARKER}]) @@
    ("ALWAYS start workspace exploration by calling get_workspace_overview()" :>
        [starts |-> {}, contains |-> {}]) @@
    ("### When to Use Jumble Tools" :> [starts |-> {}, contains |-> {}]) @@
    ("5. **Running commands** -> Use get_commands(project, type)" :>
        [starts |-> {}, contains |-> {}]) @@
    ("Old content here." :> [starts |-> {}, contains |-> {}]) @@
    ("### Old details" :> [starts |-> {}, contains |-> {}]) @@
    ("## Another Section" :> [starts |-> {"## "}, contains |-> {}]) @@
    ("Keep this section." :> [starts |-> {}, contains |-> {}]) @@
    ("# Notes" :> [starts |-> {"# "}, contains |-> {}]) @@
    ("Keep this note." :> [starts |-> {}, contains |-> {}]) @@
    ("## Using Jumble in CI" :> [starts |-> {"## "}, contains |-> {"Using Jumble"}]) @@
    ("Keep this step." :> [starts |-> {}, contains |-> {}]) @@
    ("See ## Using Jumble for Project Context" :>
        [starts |-> {}, contains |-> {"Using Jumble", JUMBLE_SECTION_MARKER}])

LineStartsWith(l, pattern) == pattern \in LineFacts[l].starts
LineContains(l, pattern) == pattern \in LineFacts[l].contains

\* JUMBLE_SECTION.lines(): the marker line first, then the body, of which the
\* first, a heading and the last line are kept, without their backquotes.  No
\* line of the body starts with "# " or "## ".  The text ends with a newline.
JUMBLE_SECTION ==
    <<JUMBLE_SECTION_MARKER,
      "",
      "ALWAYS start workspace exploration by calling get_workspace_overview()",
      "",
      "### When to Use Jumble Tools",
      "5. **Running commands** -> Use get_commands(project, type)">>

\* A text from its lines; nl says whether it ends with '\n'.
Text(ls, nl) == [lines |-> ls, nl |-> nl]

\* [&str]::join("\n"): a last element that is empty leaves the text ending
\* with the newline before it.
JoinLines(v) ==
    IF v = <<>> THEN Text(<<>>, FALSE)
    ELSE IF v[Len(v)] # "" THEN Text(v, FALSE)
    ELSE IF Len(v) = 1 THEN Text(<<>>, FALSE)
    ELSE Text(SubSeq(v, 1, Len(v) - 1), TRUE)

\* replace_jumble_section: the loop that drops the lines of the old section.
RECURSIVE DropSection(_, _)
DropSection(ls, in_jumble_section) ==
    IF ls = <<>> THEN <<>>
    ELSE LET l == Head(ls)
         IN IF LineStartsWith(l, "## Using Jumble for Project Context")
            THEN DropSection(Tail(ls), TRUE)
            ELSE LET still == /\ in_jumble_section
                              /\ ~(\/ LineStartsWith(l, "# ")
                                   \/ (LineStartsWith(l, "## ") /\ ~LineContains(l, "Using Jumble")))
                 IN (IF still THEN <<>> ELSE <<l>>) \o DropSection(Tail(ls), still)

\* replace_jumble_section(content)
replace_jumble_section(content) ==
    LET result == DropSection(content.lines, FALSE)
        h1 == {i \in 1..Len(result) :
                  LineStartsWith(result[i], "# ") /\ ~LineStartsWith(result[i], "# WARP")}
        insert_pos == IF h1 = {} THEN Len(result) + 1
                      ELSE CHOOSE i \in h1 : \A j \in h1 : i <= j
    IN IF insert_pos <= Len(result)
       THEN JoinLines(SubSeq(result, 1, insert_pos - 1) \o JUMBLE_SECTION \o <<"", "">>
                      \o SubSeq(result, insert_pos, Len(result)))
       ELSE JoinLines(result \o <<"">> \o JUMBLE_SECTION)

\* setup_warp that does not ask for force before it replaces the section.
setup_warp_always_replaces(t, force) ==
    LET content == Unwrap(t.warp_md)
        has_marker == \E i \in 1..Len(content.lines) :
                          LineContains(content.lines[i], JUMBLE_SECTION_MARKER)
    IN IF ~IsSome(t.warp_md)
       THEN [t EXCEPT !.warp_md = Some(
                Text(<<"# WARP.md", "",
                       "This file provides guidance to WARP (warp.dev) when working with code in this repository.",
                       "">> \o JUMBLE_SECTION, TRUE))]
       ELSE IF has_marker
       THEN [t EXCEPT !.warp_md = Some(replace_jumble_section(content))]
       ELSE [t EXCEPT !.warp_md = Some(
                Text((IF content.lines = <<>> /\ ~content.nl THEN <<"">> ELSE content.lines)
                     \o <<"">> \o JUMBLE_SECTION, TRUE))]

\* setup_warp(workspace_root, force): the tree it leaves.  Only WARP.md is
\* written; the rest of the function prints.
setup_warp(t, force) ==
    LET content == Unwrap(t.warp_md)
        has_marker == \E i \in 1..Len(content.lines) :
                          LineContains(content.lines[i], JUMBLE_SECTION_MARKER)
    IN IF ~IsSome(t.warp_md)
       THEN [t EXCEPT !.warp_md = Some(
                Text(<<"# WARP.md", "",
                       "This file provides guidance to WARP (warp.dev) when working with code in this repository.",
                       "">> \o JUMBLE_SECTION, TRUE))]
       ELSE IF has_marker
       THEN IF ~force THEN t
            ELSE [t EXCEPT !.warp_md = Some(replace_jumble_section(content))]
       ELSE [t EXCEPT !.warp_md = Some(
                Text((IF content.lines = <<>> /\ ~content.nl THEN <<"">> ELSE content.lines)
                     \o <<"">> \o JUMBLE_SECTION, TRUE))]

\* fs::write without the test for the file.
WriteAlways(file, content) == content

\* if path.exists() { println } else { fs::write(path, content) }: the file
\* after it.
WriteIfMissing(file, content) == IF Exists(file) THEN file ELSE content

\* if dir.exists() { println } else { fs::create_dir_all(dir) }
CreateIfMissing(dir) == IF Exists(dir) THEN dir ELSE "dir"

\* setup_init(workspace_root): the tree it leaves and whether it returned Ok.
\* A write under a .jumble or .ai that is no directory fails, and `?` returns.
setup_init(t) ==
    LET t1 == [t EXCEPT !.jumble_dir = CreateIfMissing(@)]
        t2 == [t1 EXCEPT !.project_toml = WriteIfMissing(@, "default_project")]
        t3 == [t2 EXCEPT !.ai_dir = CreateIfMissing(@)]
        t4 == [t3 EXCEPT !.constitution = WriteIfMissing(@, "")]
        t5 == [t4 EXCEPT !.docs_dir = CreateIfMissing(@)]
        t6 == [t5 EXCEPT !.agents_md = WriteIfMissing(@, "agents_content")]
        t7 == [t6 EXCEPT !.gitignore = WriteIfMissing(@, "")]
    IN IF ~Exists(t1.project_toml) /\ t1.jumble_dir # "dir" THEN [tree |-> t1, ok |-> FALSE]
       ELSE IF ~Exists(t3.constitution) /\ t3.ai_dir # "dir" THEN [tree |-> t3, ok |-> FALSE]
       ELSE [tree |-> t7, ok |-> TRUE]

\* The WARP.md files the root may hold before the first run.
WarpFiles ==
    {None} \cup
    {Some(c) : c \in
        {Text(<<"# WARP.md", "", JUMBLE_SECTION_MARKER, "", "Old content here.", "",
               "## Another Section", "", "Keep this section.">>, TRUE),
         Text(<<"# WARP.md", "">> \o JUMBLE_SECTION, TRUE),
         Text(<<"# WARP.md", "", "## Another Section", "", "Keep this section.">>, FALSE),
         Text(<<"# WARP.md", "", JUMBLE_SECTION_MARKER, "Old content here.", "### Old details",
                "# Notes", "Keep this note.", "">>, TRUE),
         Text(<<"## Another Section", "Keep this section.", JUMBLE_SECTION_MARKER,
                "Old content here.">>, FALSE),
         Text(<<"# WARP.md", JUMBLE_SECTION_MARKER, "Old content here.",
                "## Using Jumble in CI", "Keep this step.">>, TRUE),
         Text(<<"# WARP.md", "See ## Using Jumble for Project Context">>, TRUE),
         Text(<<>>, FALSE)}}

\* The roots before the first run: each managed file is missing or the user's,
\* each directory is missing or there, and .jumble and .ai may be files.
SetupTrees ==
    {[jumble_dir |-> j[1], project_toml |-> j[2], ai_dir |-> a[1], constitution |-> a[2],
      docs_dir |-> d, agents_md |-> g, gitignore |-> i, warp_md |-> w] :
        j \in {<<"absent", "absent">>, <<"dir", "absent">>, <<"dir", "user project">>,
               <<"file", "absent">>},
        a \in {<<"absent", "absent">>, <<"dir", "absent">>, <<"dir", "user rules">>,
               <<"file", "absent">>},
        d \in {"absent", "dir"},
        g \in {"absent", "user agents"},
        i \in {"absent", "*.log\n*.tmp\n"},
        w \in WarpFiles}

\* main with a setup subcommand: the server is not constructed.
InitSetup ==
    /\ disk \in InitDisks
    /\ wsFile = "W1"
    /\ walkOrder = <<"a", "b">>
    /\ hashSeed = StartupSeed
    /\ workspace = None
    /\ projects = EmptyMap
    /\ line = TextLine("none")
    /\ response = None
    /\ passDisk = disk
    /\ passWs = wsFile
    /\ edits = 0
    /\ \E t \in SetupTrees : setup = [trees |-> <<t>>, cmds |-> <<>>]

\* The tree as the last run left it.
SetupTree == setup.trees[Len(setup.trees)]

\* jumble setup init
RunSetupInit ==
    /\ Len(setup.cmds) < MaxSetupRuns
    /\ LET r == setup_init(SetupTree)
       IN setup' = [trees |-> Append(setup.trees, r.tree),
                    cmds |-> Append(setup.cmds, [name |-> "init", force |-> FALSE, ok |-> r.ok])]
    /\ UNCHANGED <<disk, wsFile, walkOrder, workspace, projects, hashSeed, line, response,
                   passDisk, passWs, edits>>

\* jumble setup warp, with or without --force
RunSetupWarp ==
    \E force \in BOOLEAN :
        /\ Len(setup.cmds) < MaxSetupRuns
        /\ setup' = [trees |-> Append(setup.trees, setup_warp(SetupTree, force)),
                     cmds |-> Append(setup.cmds, [name |-> "warp", force |-> force, ok |-> TRUE])]
        /\ UNCHANGED <<disk, wsFile, walkOrder, workspace, projects, hashSeed, line, response,
                   passDisk, passWs, edits>>

NextSetup ==
    \/ RunSetupInit
    \/ RunSetupWarp

SpecSetup == InitSetup /\ [][NextSetup]_vars

\* ------------------------------------------------------------ observations
\* What the last step of main left behind.

\* main has parsed the line into a request and written the response to it.
Handled == IsSome(ParseRequest(line))

\* The request handle_request was called with, and the message written for it.
Request == Unwrap(ParseRequest(line))
Message == Unwrap(response)

\* The request is a tools/call; name and arguments as handle_tools_call reads them.
IsToolCall == Handled /\ Request.method = "tools/call"
ToolName == IF Request.params.kind = "object" THEN AsStr(Request.params.name) ELSE None
ToolArgs ==
    IF Request.params.kind = "object" /\ IsSome(Request.params.arguments)
    THEN Unwrap(Request.params.arguments) ELSE NoArgs
NamedCall == IsToolCall /\ IsSome(ToolName)
Calls(tool) == NamedCall /\ ToolName = Some(tool)

\* The text block of a tools/call result, and whether it is flagged as an error.
ReplyText == Message["result"].content[1].text
Flagged == "isError" \in DOMAIN Message["result"] /\ Message["result"].isError = TRUE

\* The message is a JSON-RPC error with this code and no result.
IsRpcError(code) ==
    /\ "error" \in DOMAIN Message
    /\ "result" \notin DOMAIN Message
    /\ Message["error"].code = code

\* The tools that look a project up by the 'project' argument.
ProjectTools == DOMAIN SecondArg

\* The tools of the match in handle_tools_call.
KnownTools ==
    {"reload_workspace"} \cup {ToolCatalog[i] : i \in 1..Len(ToolCatalog)}

\* ------------------------------------------------------- the disk of a pass
\* What a discovery pass over a tree has to find, said without the loop.

\* Directory d of the tree fs holds a descriptor that reads and parses.
Declared(fs, d) == fs[d].project \in DOMAIN ProjectTomls

\* The project name that descriptor declares.
NameIn(fs, d) == ProjectTomls[fs[d].project].project.name

\* The directories of fs whose descriptor declares the name n.
Declaring(fs, n) == {d \in Dirs : Declared(fs, d) /\ NameIn(fs, d) = n}

\* The names declared by the descriptors of fs.
DeclaredNames(fs) == {NameIn(fs, d) : d \in {e \in Dirs : Declared(fs, e)}}

\* The place of directory d in the walk.
Position(order, d) == CHOOSE i \in 1..Len(order) : order[i] = d

\* Of the directories declaring n, the one the walk visits last.
LastDeclaring(order, fs, n) ==
    CHOOSE d \in Declaring(fs, n) :
        \A e \in Declaring(fs, n) : Position(order, e) <= Position(order, d)

\* The registry entry made of directory d alone.
EntryOf(fs, d) ==
    [dir |-> d,
     config |-> ProjectTomls[fs[d].project],
     prompts |-> discover_prompts(d, fs[d].prompts),
     conventions |-> IF fs[d].conventions \in DOMAIN ConventionsTomls
                     THEN ConventionsTomls[fs[d].conventions] ELSE DefaultConventions,
     docs |-> IF fs[d].docs \in DOMAIN DocsTomls
              THEN DocsTomls[fs[d].docs] ELSE DefaultDocs]

\* The names a query may ask for.
AskedNames == {"app", "lib", "ghost"}

\* The text has the bullet "- **n** (" that list_projects and
\* get_workspace_overview write for the project n.
Lists(text, n) ==
    \E i \in 1..(Len(text) - 2) :
        text[i] = "- **" /\ text[i + 1] = n /\ text[i + 2] = "** ("

\* The request gives the 'project' argument n and whatever else its tool needs
\* before it looks the project up.
AsksProject(n) ==
    /\ NamedCall
    /\ Unwrap(ToolName) \in ProjectTools
    /\ AsStr(ToolArgs.project) = Some(n)
    /\ Unwrap(ToolName) \in NeedsSecondArg
           => IsSome(AsStr(ToolArgs[SecondArg[Unwrap(ToolName)].key]))

NotFoundText(n) == <<"Error: ", "Project '", n, "' not found">>

\* --------------------------------------------------------------------- C1
\* The failures the tools report: a tool name outside the match, a per-project
\* tool without a usable 'project' argument or with a project the registry does
\* not hold, a prompt whose file cannot be read, and whatever else makes the
\* tool return Err.
ListedFailure ==
    \/ Unwrap(ToolName) \notin KnownTools
    \/ /\ Unwrap(ToolName) \in ProjectTools
       /\ \/ ~IsSome(AsStr(ToolArgs.project))
          \/ Unwrap(AsStr(ToolArgs.project)) \notin DOMAIN projects
    \/ ~CallTool(Server, Unwrap(ToolName), ToolArgs, disk).ok

\* C1: for a tools/call whose params carry a string name, a tool-level failure
\* is a protocol-level success: the message has a result and no error, the
\* result is flagged isError = true and its text starts with "Error: ".
C1_ToolFailureIsProtocolSuccess ==
    NamedCall =>
        /\ "result" \in DOMAIN Message
        /\ "error" \notin DOMAIN Message
        /\ ListedFailure => (Flagged /\ Head(ReplyText) = "Error: ")

\* A prompt that was discovered and whose file can no longer be read.
C1_Witness ==
    /\ Calls("get_prompt")
    /\ "result" \in DOMAIN Message
    /\ Flagged
    /\ ReplyText = <<"Error: ", "Failed to read prompt: ", "io error">>

\* --------------------------------------------------------------------- C2
\* The registry is the one the last recorded pass built: no pass has run since.
RegistryIsOfPass ==
    /\ workspace = load_workspace_static(passWs)
    /\ projects = DiscoverFrom(walkOrder, passDisk, EmptyMap)

\* C2: a method outside initialize, initialized, tools/list and tools/call is
\* answered with error -32601; a tools/call whose params have no string 'name'
\* is answered with error -32602, with no result and with no pass run.
C2_ProtocolErrors ==
    Handled =>
        /\ Request.method \notin {"initialize", "initialized", "tools/list", "tools/call"}
               => IsRpcError(-32601)
        /\ (IsToolCall /\ ~IsSome(ToolName)) => (IsRpcError(-32602) /\ RegistryIsOfPass)

\* A tools/call whose name is a number, read after the tree has changed.
C2_Witness ==
    /\ IsToolCall
    /\ Request.params.kind = "object"
    /\ Request.params.name = JNum("42")
    /\ IsRpcError(-32602)
    /\ disk # passDisk

\* --------------------------------------------------------------------- C3
\* C3: after a pass, a project is in the registry, and in the answers of the
\* queries, exactly when the tree of that pass holds a valid descriptor
\* declaring it: a project whose descriptor was deleted before reload_workspace is
\* gone, one whose descriptor was added before it is there.
C3_ReloadTracksDisk ==
    \A n \in AskedNames :
        LET declared == n \in DeclaredNames(passDisk)
        IN /\ (n \in DOMAIN projects) <=> declared
           /\ (Calls("list_projects") \/ Calls("get_workspace_overview"))
                  => (Lists(ReplyText, n) <=> declared)
           /\ AsksProject(n) => ((ReplyText = NotFoundText(n)) <=> ~declared)

\* No descriptor declares lib at startup: one was written since, reload_workspace
\* has run, and a query for lib finds it.
C3_Witness ==
    /\ AsksProject("lib")
    /\ Calls("get_project_info")
    /\ ~Flagged
    /\ Declaring(passDisk, "lib") = {"b"}

\* The descriptor of app, there at startup, was deleted, reload_workspace has
\* run, and a query for app no longer finds it.
C3_DeletedIsGone ==
    /\ AsksProject("app")
    /\ ReplyText = NotFoundText("app")
    /\ disk["a"].project = "absent"

\* --------------------------------------------------------------------- C4
\* get_prompt has found its topic in the registry and reads the prompt's file.
ReadsPromptFile ==
    /\ Calls("get_prompt")
    /\ IsSome(AsStr(ToolArgs.project))
    /\ IsSome(AsStr(ToolArgs.topic))
    /\ Unwrap(AsStr(ToolArgs.project)) \in DOMAIN projects
    /\ Unwrap(AsStr(ToolArgs.topic))
           \in DOMAIN projects[Unwrap(AsStr(ToolArgs.project))].prompts.prompts

\* The path the registry holds for that topic, and the files now in its directory.
PromptPath ==
    projects[Unwrap(AsStr(ToolArgs.project))].prompts.prompts[Unwrap(AsStr(ToolArgs.topic))]
PromptFilesNow == PromptLayouts[disk[PromptPath.dir].prompts]

\* The message is what the server answers from its registry when the files are
\* those of the most recent pass.
AnswersFromPass == Message = Serialize(handle_request(Server, Request, passDisk))

\* C4 as stated: the registry is the one the most recent pass built, whatever
\* has changed on disk since, and every request is answered from the disk state
\* of that pass.
C4_AnswersFromLastPass ==
    /\ RegistryIsOfPass
    /\ Handled => AnswersFromPass

\* C4, amended: the registry is the one the most recent pass built, whatever has
\* changed on disk since, and every request is answered from it; only the
\* content of a prompt whose topic the registry holds is read from the file as
\* it is at the time of the call.
C4_RegistryChangesOnlyOnReload ==
    /\ RegistryIsOfPass
    /\ (Handled /\ ~ReadsPromptFile) => AnswersFromPass
    /\ ReadsPromptFile =>
           IF PromptPath.file \in DOMAIN PromptFilesNow
           THEN ~Flagged /\ ReplyText = <<PromptFilesNow[PromptPath.file]>>
           ELSE Flagged /\ ReplyText[2] = "Failed to read prompt: "

\* The descriptor of app is gone from the disk, no pass has run since, and
\* list_projects still lists app.
C4_Witness ==
    /\ Calls("list_projects")
    /\ disk # passDisk
    /\ "app" \notin DeclaredNames(disk)
    /\ Lists(ReplyText, "app")

\* --------------------------------------------------------------------- C5
\* C5: the registry holds what the most recent pass found and nothing else: its
\* names are the names declared on the disk of that pass, each entry is made of
\* a directory declaring it, and the workspace is the one workspace.toml held
\* at that pass, or none when the file was missing or malformed.
C5_PassReplacesRegistry ==
    /\ DOMAIN projects = DeclaredNames(passDisk)
    /\ \A n \in DOMAIN projects :
           \E d \in Declaring(passDisk, n) : projects[n] = EntryOf(passDisk, d)
    /\ workspace = IF passWs \in DOMAIN WorkspaceTomls
                   THEN Some(WorkspaceTomls[passWs]) ELSE None

\* app, registered at startup, has lost its descriptor and reload_workspace has
\* dropped it.
C5_Witness ==
    /\ Calls("reload_workspace")
    /\ ~Declared(passDisk, "a")
    /\ "app" \notin DOMAIN projects

\* workspace.toml, loaded at startup, is missing or malformed and
\* reload_workspace has dropped the workspace.
C5_WorkspaceDropped ==
    /\ Calls("reload_workspace")
    /\ passWs \in {"absent", "garbage"}
    /\ workspace = None

\* --------------------------------------------------------------------- C6
\* The descriptor of directory d is there and does not load.
Malformed(fs, d) == fs[d].project \in {"unreadable", "garbage"}

\* C6: a descriptor that cannot be read or parsed adds nothing to the registry
\* and takes nothing from it: every valid descriptor of the pass has its name
\* registered, no entry comes from a directory without a valid descriptor, and
\* reload_workspace reports success.
C6_MalformedDescriptorSkipped ==
    /\ \A d \in Dirs : Declared(passDisk, d) => NameIn(passDisk, d) \in DOMAIN projects
    /\ \A d \in Dirs : ~Declared(passDisk, d) =>
           \A n \in DOMAIN projects : projects[n].dir # d
    /\ Calls("reload_workspace") =>
           /\ "result" \in DOMAIN Message
           /\ ~Flagged
           /\ ReplyText = <<"Workspace and projects reloaded from disk.">>

\* A reload whose walk met a malformed descriptor first and a valid one after it.
C6_Witness ==
    /\ Calls("reload_workspace")
    /\ \E d \in Dirs, e \in Dirs :
           /\ Malformed(passDisk, d)
           /\ Declared(passDisk, e)
           /\ Position(walkOrder, d) < Position(walkOrder, e)
           /\ projects[NameIn(passDisk, e)].dir = e

\* A reload whose walk met a valid descriptor first and an unreadable one after it.
C6_ValidThenUnreadable ==
    /\ Calls("reload_workspace")
    /\ \E d \in Dirs, e \in Dirs :
           /\ passDisk[d].project = "unreadable"
           /\ Declared(passDisk, e)
           /\ Position(walkOrder, e) < Position(walkOrder, d)
           /\ projects[NameIn(passDisk, e)].dir = e

\* --------------------------------------------------------------------- C7
\* C7: a name declared by several descriptors has one entry, and its directory,
\* descriptor, prompts, conventions and docs are those of the declaring
\* directory the walk visited last.
C7_LastDescriptorWins ==
    \A n \in DOMAIN projects :
        /\ Declaring(passDisk, n) # {}
        /\ projects[n] = EntryOf(passDisk, LastDeclaring(walkOrder, passDisk, n))

\* Both directories declare app, with different descriptors and different
\* conventions, and the entry is the one of the directory visited last.
C7_Witness ==
    /\ Declaring(passDisk, "app") = Dirs
    /\ EntryOf(passDisk, "a").config # EntryOf(passDisk, "b").config
    /\ EntryOf(passDisk, "a").conventions # EntryOf(passDisk, "b").conventions
    /\ projects["app"].dir = walkOrder[Len(walkOrder)]
    /\ projects["app"] = EntryOf(passDisk, walkOrder[Len(walkOrder)])

\* --------------------------------------------------------------------- C8
\* The server as Server::new built it, while the disk is still the one it was
\* started on.
StartupServer ==
    [workspace |-> load_workspace_static(wsFile),
     projects |-> DiscoverFrom(walkOrder, disk, EmptyMap),
     hashSeed |-> StartupSeed]

\* The message the server wrote, or would have written, for the request before
\* any reload.
StartupAnswer == Serialize(handle_request(StartupServer, Request, disk))

\* Whether a message is an error, a flagged result or a plain result.
Outcome(msg) ==
    [error |-> "error" \in DOMAIN msg,
     flagged |-> "result" \in DOMAIN msg /\ "isError" \in DOMAIN msg["result"]]

\* The request's answer iterates over no map: the methods other than tools/call,
\* calls without a name or of no tool, the overview (which sorts), and lookups
\* by key.
OrderFree ==
    \/ ~NamedCall
    \/ Unwrap(ToolName) \notin KnownTools
    \/ Unwrap(ToolName) \in {"reload_workspace", "get_workspace_overview"}
    \/ Unwrap(ToolName) = "get_commands" /\ IsSome(AsStr(ToolArgs.command_type))
    \/ /\ Unwrap(ToolName) = "get_project_info"
       /\ AsStr(ToolArgs.field) \in {Some("dependencies"), Some("api"),
                                     Some("related_projects"), Some("bogus")}

\* The pieces of the text of a tools/call result.
Pieces(msg) ==
    LET text == msg["result"].content[1].text
    IN {text[i] : i \in 1..Len(text)}

\* C8 as stated: passes over an unchanged disk build equal registries, and while
\* the disk is the one the server was started on, reloads or not, every
\* request is answered as it was answered at startup.
C8_ReloadChangesNoAnswer ==
    /\ RegistryIsOfPass
    /\ edits = 0 =>
          /\ workspace = StartupServer.workspace
          /\ projects = StartupServer.projects
          /\ Handled => Message = StartupAnswer

\* C8, amended: passes over an unchanged disk build equal registries, so a
\* second reload changes nothing the first did not; while the disk is the one
\* the server was started on, every request succeeds or fails as at startup,
\* every answer that iterates over no map is the one given at startup, and the
\* other answers, get_architecture's choice among several matches apart, have
\* the same pieces in an order that may have changed.
C8_DiscoveryIdempotent ==
    /\ RegistryIsOfPass
    /\ edits = 0 =>
          /\ workspace = StartupServer.workspace
          /\ projects = StartupServer.projects
          /\ Handled =>
                /\ Outcome(Message) = Outcome(StartupAnswer)
                /\ OrderFree => Message = StartupAnswer
                /\ (NamedCall /\ ~Calls("get_architecture"))
                       => Pieces(Message) = Pieces(StartupAnswer)

\* reload_workspace has run on the disk the server was started on, the new maps
\* iterate in another order, and the overview is the one given at startup.
C8_Witness ==
    /\ Calls("get_workspace_overview")
    /\ edits = 0
    /\ hashSeed # StartupSeed
    /\ Message = StartupAnswer

\* --------------------------------------------------------------------- C9
\* C9: the message written for a parsed request has a result or an error, and
\* never both.
C9_ResultXorError ==
    Handled => (("result" \in DOMAIN Message) # ("error" \in DOMAIN Message))

\* A request answered with an error and no result.
C9_Witness ==
    /\ Handled
    /\ Request.method = "ping"
    /\ "error" \in DOMAIN Message
    /\ "result" \notin DOMAIN Message

\* -------------------------------------------------------------------- C10
\* C10 as stated: the id of the message is the id of the request, whatever JSON
\* value that is (number, string, null), and a request without id gets a
\* message without id.
C10_IdEchoed ==
    Handled =>
        IF line.id = Absent
        THEN "id" \notin DOMAIN Message
        ELSE "id" \in DOMAIN Message /\ Message["id"] = line.id

\* What the server does: a number or string id is echoed, and a request whose
\* id is null is answered, like one without id, by a message without id.
C10_NullIdDropped ==
    Handled =>
        IF line.id \in {Absent, JNull}
        THEN "id" \notin DOMAIN Message
        ELSE "id" \in DOMAIN Message /\ Message["id"] = line.id

\* A request with "id": null and the message written for it.
C10_NullIdRequest ==
    /\ Handled
    /\ line.id = JNull
    /\ "id" \notin DOMAIN Message

\* -------------------------------------------------------------------- C11
\* main has read a line that is not empty and is no request.
NotARequest == line.kind \notin {"none", "empty"} /\ ~Handled

\* What the server holds and what it reads: everything but the line in hand and
\* the response to it.
beyondLine == <<disk, wsFile, walkOrder, workspace, projects, hashSeed, passDisk, passWs, edits>>

\* C11: a line that is not empty and does not parse as a request gets one
\* response, an error with code -32700 and without id; reading it changes
\* neither the registry nor anything else the server holds, and the next step
\* of main is back at the head of the loop, in the state the loop was in before
\* the line was read.
C11_ParseErrorPerLine ==
    /\ [](NotARequest =>
             /\ IsSome(response)
             /\ IsRpcError(-32700)
             /\ "id" \notin DOMAIN Message
             /\ Head(Message["error"].message) = "Parse error: "
             /\ RegistryIsOfPass)
    /\ [][NotARequest' => (AtLoopHead /\ UNCHANGED beyondLine)]_vars
    /\ [][NotARequest => (AtLoopHead' /\ response' = None /\ UNCHANGED beyondLine)]_vars

\* A line that is not JSON, read after the tree changed and before any reload:
\* it is answered with the parse error and the registry is still the old one.
C11_Witness ==
    /\ line = TextLine("garbage")
    /\ IsRpcError(-32700)
    /\ "id" \notin DOMAIN Message
    /\ disk # passDisk
    /\ projects # DiscoverFrom(walkOrder, disk, EmptyMap)

C12_EmptyLineUnanswered == line.kind = "empty" /\ response = None /\ edits > 0

\* A line of white space only is not empty: it is answered with the parse error.
C12_SpacesAnswered == line.kind = "spaces" /\ IsRpcError(-32700)

\* -------------------------------------------------------------------- C13
\* The registry a pass is building when its walk has visited k directories.
MidWalk(fs, k) == DiscoverFrom(SubSeq(walkOrder, 1, k), fs, EmptyMap)

\* C13: in every state, that before the first line is read included, the
\* registry is that of a whole pass: the workspace and the projects the walk
\* of all directories finds on the tree of one and the same pass.  When the
\* response of a reload_workspace is written that pass is the one over the tree
\* as it is now, and every request is answered from the registry of a whole
\* pass, never from one the walk has only partly built.
C13_NoLookupBeforePassCompletes ==
    LET whole == [workspace |-> load_workspace_static(passWs),
                  projects |-> MidWalk(passDisk, Len(walkOrder)),
                  hashSeed |-> hashSeed]
    IN /\ workspace = whole.workspace
       /\ projects = whole.projects
       /\ \A k \in 0..(Len(walkOrder) - 1) :
              MidWalk(passDisk, k) # whole.projects => projects # MidWalk(passDisk, k)
       /\ Calls("reload_workspace") => (passDisk = disk /\ passWs = wsFile)
       /\ Handled => Message = Serialize(handle_request(whole, Request, disk))

\* The tree was given a second project, reload_workspace has run, and the
\* request after it is answered from a registry that holds both projects, the one
\* the walk visits first and the one it visits last.
C13_Witness ==
    /\ Calls("list_projects")
    /\ DOMAIN projects = {"app", "lib"}
    /\ Lists(ReplyText, "app")
    /\ Lists(ReplyText, "lib")
    /\ MidWalk(passDisk, 1) # projects

\* -------------------------------------------------------------------- C14
\* The text of the error get_workspace_conventions returns without a workspace.
NoWorkspaceError ==
    <<"Error: ",
      "No workspace.toml found. Create .jumble/workspace.toml at the workspace root to define workspace-level conventions.">>

\* C14: when the workspace.toml of the last pass was missing, unreadable or
\* malformed, the server has no workspace and yet every valid descriptor of the
\* tree is registered; the reload_workspace that met the file reports success;
\* get_workspace_conventions answers with the no-workspace error.  A server
\* started on the files as they are now is built all the same: without a
\* workspace when the file is one of those, and with every valid project.
C14_WorkspaceBestEffort ==
    LET bad == {"absent", "unreadable", "garbage"}
    IN /\ passWs \in bad =>
              /\ workspace = None
              /\ DOMAIN projects = DeclaredNames(passDisk)
              /\ Calls("reload_workspace") =>
                     (~Flagged /\ ReplyText = <<"Workspace and projects reloaded from disk.">>)
              /\ Calls("get_workspace_conventions") =>
                     (Flagged /\ ReplyText = NoWorkspaceError)
       /\ passWs \notin bad =>
              /\ IsSome(workspace)
              /\ Calls("get_workspace_conventions") => ReplyText # NoWorkspaceError
       /\ wsFile \in bad =>
              /\ StartupServer.workspace = None
              /\ DOMAIN StartupServer.projects = DeclaredNames(disk)
              /\ CallTool(StartupServer, "get_workspace_conventions", NoArgs, disk)
                     = Err(Tail(NoWorkspaceError))

\* workspace.toml was replaced by a file that does not parse, reload_workspace
\* has run, the project is still there and get_workspace_conventions fails.
C14_Witness ==
    /\ Calls("get_workspace_conventions")
    /\ passWs = "garbage"
    /\ "app" \in DOMAIN projects
    /\ Flagged
    /\ ReplyText = NoWorkspaceError

\* The same with the file deleted, and with a file that cannot be read.
C14_Deleted == Calls("get_workspace_conventions") /\ passWs = "absent" /\ Flagged
C14_Unreadable == Calls("get_workspace_conventions") /\ passWs = "unreadable" /\ Flagged

\* -------------------------------------------------------------------- C15
\* C15: every directory whose project.toml parses is registered, whatever became
\* of its auxiliary files, and each of the three facets of its entry is what its
\* own file gives when it is there, reads and parses, and empty when that file
\* is missing, unreadable or malformed, whatever the state of the other two.
C15_AuxiliaryLoadsIndependent ==
    \A d \in Dirs :
        LET f == passDisk[d]
            conventionsOf == IF f.conventions \in {"absent", "unreadable", "garbage"}
                             THEN [conventions |-> EmptyMap, gotchas |-> EmptyMap]
                             ELSE ConventionsTomls[f.conventions]
            docsOf == IF f.docs \in {"absent", "unreadable", "garbage"}
                      THEN [docs |-> EmptyMap]
                      ELSE DocsTomls[f.docs]
            topicsOf == IF f.prompts \in {"nodir", "locked"}
                        THEN {}
                        ELSE {FileStem[g] : g \in {h \in DOMAIN PromptLayouts[f.prompts] :
                                                      Extension[h] = "md"}}
        IN Declared(passDisk, d) =>
               /\ NameIn(passDisk, d) \in DOMAIN projects
               /\ LET e == projects[NameIn(passDisk, d)]
                  IN e.dir = d =>
                        /\ e.config = ProjectTomls[f.project]
                        /\ e.conventions = conventionsOf
                        /\ e.docs = docsOf
                        /\ DOMAIN e.prompts.prompts = topicsOf

\* conventions.toml does not parse, docs.toml and the prompts are well: the
\* project is registered with no conventions, its docs and its prompt.
C15_Witness ==
    /\ passDisk["a"].conventions = "garbage"
    /\ passDisk["a"].docs = "DX1"
    /\ passDisk["a"].prompts = "add-v1"
    /\ Calls("get_docs")
    /\ AsStr(ToolArgs.project) = Some("app")
    /\ projects["app"].conventions = DefaultConventions
    /\ DOMAIN projects["app"].docs.docs = {"guide"}
    /\ DOMAIN projects["app"].prompts.prompts = {"add"}

\* The prompts directory cannot be listed and docs.toml cannot be read, and the
\* conventions are loaded.
C15_OnlyConventions ==
    /\ passDisk["a"].conventions = "CV1"
    /\ passDisk["a"].docs = "unreadable"
    /\ passDisk["a"].prompts = "locked"
    /\ Calls("get_conventions")
    /\ projects["app"].conventions = ConventionsTomls["CV1"]
    /\ projects["app"].docs = DefaultDocs
    /\ projects["app"].prompts = DefaultPrompts

\* -------------------------------------------------------------------- C16
\* get_architecture or get_related_files has its two arguments and has found
\* its project.
SearchesConcepts ==
    /\ (Calls("get_architecture") \/ Calls("get_related_files"))
    /\ IsSome(AsStr(ToolArgs.project))
    /\ IsSome(AsStr(ToolArgs[SecondArg[Unwrap(ToolName)].key]))
    /\ Unwrap(AsStr(ToolArgs.project)) \in DOMAIN projects

\* The concepts of that project and the text asked for (the concept or query).
Asked ==
    [concepts |-> projects[Unwrap(AsStr(ToolArgs.project))].config.concepts,
     text |-> Unwrap(AsStr(ToolArgs[SecondArg[Unwrap(ToolName)].key]))]

\* The keys that match the text: as it is, up to case, and those that contain
\* it, or whose summary contains it, up to case.
Matching ==
    LET keys == DOMAIN Asked.concepts
        lower == ToLowercase(Asked.text)
    IN [exact |-> {k \in keys : k = Asked.text},
        folded |-> {k \in keys : ToLowercase(k) = lower},
        substring |-> {k \in keys :
                          \/ Contains(ToLowercase(k), lower)
                          \/ Contains(ToLowercase(Asked.concepts[k].summary), lower)}]

\* The answer of get_architecture is the concept k: its title, its summary and
\* its files.
AnswersConcept(k) ==
    /\ ~Flagged
    /\ ReplyText[1] = "## "
    /\ ReplyText[2] = k
    /\ ReplyText[4] = Asked.concepts[k].summary
    /\ \A i \in 1..Len(Asked.concepts[k].files) :
           \E j \in 6..Len(ReplyText) : ReplyText[j] = Asked.concepts[k].files[i]

\* C16: when a key equals the argument, the answer is that concept; otherwise,
\* when keys equal it up to case, the answer is one of those; otherwise, when
\* keys or summaries contain it up to case, the answer is one of those; and
\* only otherwise the call fails, with an error that names the argument and
\* lists every key of the project's concepts and nothing else.  This holds in
\* whatever order the map is iterated.
C16_ThreeStageFallback ==
    (SearchesConcepts /\ Calls("get_architecture")) =>
        IF Matching.exact # {} THEN AnswersConcept(Asked.text)
        ELSE IF Matching.folded # {} THEN \E k \in Matching.folded : AnswersConcept(k)
        ELSE IF Matching.substring # {} THEN \E k \in Matching.substring : AnswersConcept(k)
        ELSE /\ Flagged
             /\ SubSeq(ReplyText, 1, 4) =
                    <<"Error: ", "Concept '", Asked.text, "' not found. Available concepts: ">>
             /\ {ReplyText[i] : i \in 5..Len(ReplyText)} \ {", "} = DOMAIN Asked.concepts
             /\ Len(ReplyText) = 4 + 2 * Cardinality(DOMAIN Asked.concepts) - 1

\* The argument AUTH equals the keys Auth and auth up to case and is contained
\* in the key oauth, which the iteration meets first; the answer is Auth or auth.
C16_Witness ==
    /\ SearchesConcepts
    /\ Calls("get_architecture")
    /\ Asked.text = "AUTH"
    /\ Matching.exact = {}
    /\ Matching.folded = {"Auth", "auth"}
    /\ Matching.substring = {"Auth", "auth", "oauth"}
    /\ Head(IterKeys(Asked.concepts, hashSeed)) = "oauth"
    /\ \E k \in Matching.folded : AnswersConcept(k)

\* A key equals the argument while another equals it up to case and is met
\* first by the iteration.
C16_ExactOverFolded ==
    /\ SearchesConcepts
    /\ Calls("get_architecture")
    /\ Asked.text = "auth"
    /\ Matching.folded = {"Auth", "auth"}
    /\ Head(IterKeys(Asked.concepts, hashSeed)) = "Auth"
    /\ AnswersConcept("auth")

\* No stage matches: the error lists the three keys.
C16_NotFoundListsAll ==
    /\ SearchesConcepts
    /\ Calls("get_architecture")
    /\ Asked.text = "zzz"
    /\ Cardinality(DOMAIN Asked.concepts) = 3
    /\ Flagged

\* -------------------------------------------------------------------- C17
\* The text get_architecture returns for the request when the maps of the same
\* registry are iterated in the order of seed s.
ArchitectureUnder(s) ==
    ToolPayload(CallTool([Server EXCEPT !.hashSeed = s], "get_architecture", ToolArgs, disk))
        .content[1].text

\* C17 as stated: for the project and the argument of the request, the answer
\* written is the one get_architecture gives under every iteration order of
\* the concept map, also when several keys match at the deciding stage.
C17_SameConceptInAnyOrder ==
    (SearchesConcepts /\ Calls("get_architecture")) =>
        \A s \in Seeds : ReplyText = ArchitectureUnder(s)

\* What the server does: the answer is the same under every iteration order
\* when one key alone matches at the deciding stage; when several do, it is
\* the one the iteration meets first.
C17_FirstInIterationOrder ==
    LET deciding == IF Matching.exact # {} THEN Matching.exact
                    ELSE IF Matching.folded # {} THEN Matching.folded
                    ELSE Matching.substring
        met == SelectSeq(IterKeys(Asked.concepts, hashSeed), LAMBDA k : k \in deciding)
    IN (SearchesConcepts /\ Calls("get_architecture")) =>
           /\ Cardinality(deciding) = 1 => \A s \in Seeds : ReplyText = ArchitectureUnder(s)
           /\ Cardinality(deciding) > 1 =>
                  /\ AnswersConcept(Head(met))
                  /\ \E s \in Seeds : ReplyText # ArchitectureUnder(s)

\* AUTH equals both Auth and auth up to case: the answer is auth under one
\* order and Auth under the other.
C17_TwoFoldedMatches ==
    /\ SearchesConcepts
    /\ Calls("get_architecture")
    /\ Asked.text = "AUTH"
    /\ Matching.folded = {"Auth", "auth"}
    /\ AnswersConcept("auth")
    /\ \E s \in Seeds : ArchitectureUnder(s)[2] = "Auth"

\* -------------------------------------------------------------------- C18
\* C18: get_related_files fails, with "No concepts matching", exactly when no
\* concept of the project has the query, up to case, in its key or in its
\* summary; otherwise its text has one section for each such concept and for
\* no other, with the concept's summary and every one of its files.
C18_UnionOfMatches ==
    (SearchesConcepts /\ Calls("get_related_files")) =>
        LET hits == Matching.substring
            sections == {i \in 1..(Len(ReplyText) - 1) : ReplyText[i] = "## "}
            pieces == {ReplyText[i] : i \in 1..Len(ReplyText)}
        IN IF hits = {}
           THEN /\ Flagged
                /\ ReplyText = <<"Error: ", "No concepts matching '", Asked.text, "' found">>
           ELSE /\ ~Flagged
                /\ SubSeq(ReplyText, 1, 3) = <<"Files related to '", Asked.text, "': \n\n">>
                /\ Cardinality(sections) = Cardinality(hits)
                /\ \A k \in DOMAIN Asked.concepts :
                       k \in hits <=> \E i \in sections : ReplyText[i + 1] = k
                /\ \A k \in hits :
                       /\ \E i \in sections :
                              ReplyText[i + 1] = k /\ ReplyText[i + 3] = Asked.concepts[k].summary
                       /\ \A n \in 1..Len(Asked.concepts[k].files) :
                              Asked.concepts[k].files[n] \in pieces

\* The query h is in the key Auth and in the summary of routing, and in nothing
\* else of either: both concepts are in the answer.
C18_Witness ==
    /\ SearchesConcepts
    /\ Calls("get_related_files")
    /\ Asked.text = "h"
    /\ DOMAIN Asked.concepts = {"Auth", "routing"}
    /\ Matching.substring = {"Auth", "routing"}
    /\ ~Flagged
    /\ \E i, j \in 1..Len(ReplyText) :
           /\ ReplyText[i] = "## " /\ ReplyText[i + 1] = "Auth"
           /\ ReplyText[j] = "## " /\ ReplyText[j + 1] = "routing"

\* The query AUTH matches one concept of two: the other is not in the answer.
C18_OneOfTwo ==
    /\ SearchesConcepts
    /\ Calls("get_related_files")
    /\ Asked.text = "AUTH"
    /\ DOMAIN Asked.concepts = {"Auth", "routing"}
    /\ ~Flagged
    /\ "routing" \notin {ReplyText[i] : i \in 1..Len(ReplyText)}

\* No concept matches the query: the call fails.
C18_NoMatch == SearchesConcepts /\ Calls("get_related_files") /\ Asked.text = "zzz" /\ Flagged

\* -------------------------------------------------------------------- C19
\* get_conventions of a registered project, or get_workspace_conventions with a
\* workspace loaded, is given a category that is neither "conventions" nor
\* "gotchas".
UnknownCategory ==
    /\ \/ /\ Calls("get_conventions")
          /\ IsSome(AsStr(ToolArgs.project))
          /\ Unwrap(AsStr(ToolArgs.project)) \in DOMAIN projects
       \/ /\ Calls("get_workspace_conventions")
          /\ IsSome(workspace)
    /\ IsSome(AsStr(ToolArgs.category))
    /\ Unwrap(AsStr(ToolArgs.category)) \notin {"conventions", "gotchas"}

\* The conventions and gotchas the call is about: the project's or the workspace's.
DefinedFor ==
    IF Calls("get_conventions")
    THEN projects[Unwrap(AsStr(ToolArgs.project))].conventions
    ELSE [conventions |-> Unwrap(workspace).conventions, gotchas |-> Unwrap(workspace).gotchas]

\* C19 as stated: such a call fails, whatever the project or workspace has
\* defined, nothing at all included.
C19_UnknownCategoryIsError == UnknownCategory => Flagged

\* C19, amended: such a call fails with "Unknown category" when the project or
\* workspace has at least one convention or gotcha; when it has none, the call
\* succeeds with the advisory that nothing is defined, the category unread.
C19_UnknownCategoryUnlessNothingDefined ==
    UnknownCategory =>
        IF DOMAIN DefinedFor.conventions = {} /\ DOMAIN DefinedFor.gotchas = {}
        THEN /\ ~Flagged
             /\ ReplyText =
                    IF Calls("get_conventions")
                    THEN <<"No conventions found for '", Unwrap(AsStr(ToolArgs.project)),
                           "'. Create .jumble/conventions.toml to add project-specific conventions and gotchas.">>
                    ELSE <<"Workspace config exists but no conventions or gotchas defined.">>
        ELSE /\ Flagged
             /\ ReplyText = <<"Error: ", "Unknown category '", Unwrap(AsStr(ToolArgs.category)),
                              "'. Use 'conventions' or 'gotchas'.">>

\* The workspace has conventions and no gotchas, and the category is unknown.
C19_Witness ==
    /\ UnknownCategory
    /\ Calls("get_workspace_conventions")
    /\ DOMAIN DefinedFor.conventions # {}
    /\ DOMAIN DefinedFor.gotchas = {}
    /\ Flagged

\* The project has conventions and gotchas, and the category is unknown.
C19_ProjectWithBoth ==
    /\ UnknownCategory
    /\ Calls("get_conventions")
    /\ DOMAIN DefinedFor.conventions # {}
    /\ DOMAIN DefinedFor.gotchas # {}
    /\ Flagged

\* The project, and the workspace, has nothing defined and the category is
\* unknown: the advisory.
C19_ProjectWithNone == UnknownCategory /\ Calls("get_conventions") /\ ~Flagged
C19_WorkspaceWithNone == UnknownCategory /\ Calls("get_workspace_conventions") /\ ~Flagged

\* -------------------------------------------------------------------- C20
\* C20: for a get_prompt of a registered project, the topics it knows are the
\* *.md files the last pass found in the project's prompts directory.  A topic
\* outside that set is not found, also when its file is there by now; a topic
\* of the set whose file is no longer there fails with "Failed to read
\* prompt"; a topic of the set whose file is there is answered with the file's
\* content as it is at the call, whatever it was at the pass.
C20_PromptReadAtCallTime ==
    (/\ Calls("get_prompt")
     /\ IsSome(AsStr(ToolArgs.project))
     /\ IsSome(AsStr(ToolArgs.topic))
     /\ Unwrap(AsStr(ToolArgs.project)) \in DOMAIN projects) =>
        LET p == Unwrap(AsStr(ToolArgs.project))
            t == Unwrap(AsStr(ToolArgs.topic))
            d == projects[p].dir
            MdOf(fs) == {f \in DOMAIN PromptLayouts[fs[d].prompts] : Extension[f] = "md"}
            atPass == {FileStem[f] : f \in MdOf(passDisk)}
            now == {f \in MdOf(disk) : FileStem[f] = t}
        IN /\ DOMAIN projects[p].prompts.prompts = atPass
           /\ t \notin atPass =>
                  /\ Flagged
                  /\ IF atPass = {}
                     THEN ReplyText = <<"Error: ", "No prompts found for '", p, "'">>
                     ELSE SubSeq(ReplyText, 1, 4) =
                              <<"Error: ", "Prompt '", t, "' not found. Available: ">>
           /\ (t \in atPass /\ now = {}) =>
                  /\ Flagged
                  /\ SubSeq(ReplyText, 1, 2) = <<"Error: ", "Failed to read prompt: ">>
           /\ (t \in atPass /\ now # {}) =>
                  /\ ~Flagged
                  /\ \E f \in now : ReplyText = <<PromptLayouts[disk[d].prompts][f]>>

\* The file of a discovered topic was rewritten after the pass and no reload
\* has run: the new content is returned.
C20_Witness ==
    /\ Calls("get_prompt")
    /\ AsStr(ToolArgs.topic) = Some("add")
    /\ passDisk["a"].prompts = "add-v1"
    /\ disk["a"].prompts = "add-v2"
    /\ ~Flagged
    /\ ReplyText = <<"v2">>

\* The file of a discovered topic was deleted after the pass.
C20_FileGone ==
    /\ Calls("get_prompt")
    /\ AsStr(ToolArgs.topic) = Some("add")
    /\ passDisk["a"].prompts = "add-v1"
    /\ disk["a"].prompts = "nodir"
    /\ ReplyText = <<"Error: ", "Failed to read prompt: ", "io error">>

\* A prompt file was written after the pass: its topic is not found.
C20_NewFileNotFound ==
    /\ Calls("get_prompt")
    /\ AsStr(ToolArgs.topic) = Some("bogus")
    /\ passDisk["a"].prompts = "add-v1"
    /\ disk["a"].prompts = "add-v2"
    /\ ReplyText = <<"Error: ", "Prompt '", "bogus", "' not found. Available: ", "add">>

\* -------------------------------------------------------------------- C21
\* C21: get_project_info of a registered project succeeds when no field is
\* given, with the overview of that project, and succeeds for each of the five
\* fields; with any other field it fails with "Unknown field: " and the field.
\* For a project the registry does not hold it fails with the not-found error,
\* whatever the field.
C21_ProjectInfoFields ==
    (Calls("get_project_info") /\ IsSome(AsStr(ToolArgs.project))) =>
        LET p == Unwrap(AsStr(ToolArgs.project))
            field == AsStr(ToolArgs.field)
            fields == {"commands", "entry_points", "dependencies", "api", "related_projects"}
        IN IF p \in DOMAIN projects
           THEN /\ ~IsSome(field) =>
                       /\ ~Flagged
                       /\ SubSeq(ReplyText, 1, 5) =
                              <<"# ", p, "\n\n", "**Description:** ",
                                projects[p].config.project.description>>
                /\ (IsSome(field) /\ Unwrap(field) \in fields) => ~Flagged
                /\ (IsSome(field) /\ Unwrap(field) \notin fields) =>
                       /\ Flagged
                       /\ ReplyText = <<"Error: ", "Unknown field: ", Unwrap(field)>>
           ELSE /\ Flagged
                /\ ReplyText = NotFoundText(p)

\* An unknown field asked of a registered project.
C21_Witness ==
    /\ Calls("get_project_info")
    /\ AsStr(ToolArgs.project) = Some("app")
    /\ "app" \in DOMAIN projects
    /\ AsStr(ToolArgs.field) = Some("bogus")
    /\ ReplyText = <<"Error: ", "Unknown field: ", "bogus">>

\* No field asked of a registered project, and a field asked of a project the
\* registry does not hold.
C21_NoField ==
    /\ Calls("get_project_info")
    /\ AsStr(ToolArgs.project) = Some("lib")
    /\ "lib" \in DOMAIN projects
    /\ ~IsSome(AsStr(ToolArgs.field))
    /\ ~Flagged
C21_FieldOfUnknownProject ==
    /\ Calls("get_project_info")
    /\ AsStr(ToolArgs.project) = Some("ghost")
    /\ AsStr(ToolArgs.field) = Some("commands")
    /\ ReplyText = NotFoundText("ghost")

\* -------------------------------------------------------------------- C22
\* C22: without a workspace, get_workspace_conventions fails with the
\* no-workspace error whatever category it is given, none and an unknown one
\* included; that text is none of the "Project '<name>' not found" errors and
\* has none of their pieces, and a per-project tool asked for a project the
\* registry does not hold fails with its not-found error and not with that text.
C22_NoWorkspaceErrorIsDistinct ==
    /\ (Calls("get_workspace_conventions") /\ workspace = None) =>
           /\ Flagged
           /\ ReplyText = NoWorkspaceError
           /\ \A n \in AskedNames : ReplyText # NotFoundText(n)
           /\ \A i \in 1..Len(ReplyText) : ReplyText[i] \notin {"Project '", "' not found"}
    /\ \A n \in AskedNames :
           (AsksProject(n) /\ n \notin DOMAIN projects) =>
               (ReplyText = NotFoundText(n) /\ ReplyText # NoWorkspaceError)

\* No workspace, and a category that is neither of the two.
C22_Witness ==
    /\ Calls("get_workspace_conventions")
    /\ workspace = None
    /\ AsStr(ToolArgs.category) = Some("bogus")
    /\ ReplyText = NoWorkspaceError

\* No workspace, and no category; no workspace, and a known category.
C22_NoCategory ==
    /\ Calls("get_workspace_conventions")
    /\ workspace = None
    /\ ~IsSome(AsStr(ToolArgs.category))
    /\ Flagged
C22_KnownCategory ==
    /\ Calls("get_workspace_conventions")
    /\ workspace = None
    /\ AsStr(ToolArgs.category) = Some("gotchas")
    /\ Flagged

\* -------------------------------------------------------------------- C23
\* C23: get_docs on a known project that has no documentation indexed answers
\* with the advisory, as a success, whether a topic is given or not and whatever
\* the topic is. With documentation indexed and a topic given it succeeds
\* exactly when the topic is a key of the index, and then shows that entry; for
\* any other topic it fails, and the error names the topic and lists every
\* indexed topic and nothing else.
C23_DocsAdvisoryThenLookup ==
    (Calls("get_docs") /\ IsSome(AsStr(ToolArgs.project))
        /\ Unwrap(AsStr(ToolArgs.project)) \in DOMAIN projects) =>
        LET p == Unwrap(AsStr(ToolArgs.project))
            docs == projects[p].docs.docs
            topic == AsStr(ToolArgs.topic)
            advisory == <<"No documentation index found for '", p,
                          "'. Create .jumble/docs.toml to index project documentation.">>
        IN IF DOMAIN docs = {}
           THEN ~Flagged /\ ReplyText = advisory
           ELSE /\ ReplyText # advisory
                /\ IsSome(topic) =>
                      /\ ~Flagged <=> (Unwrap(topic) \in DOMAIN docs)
                      /\ ~Flagged =>
                            /\ SubSeq(ReplyText, 1, 4) =
                                   <<"## ", Unwrap(topic), "\n**Summary:** ", docs[Unwrap(topic)].summary>>
                            /\ ReplyText[Len(ReplyText)] = docs[Unwrap(topic)].path
                      /\ Flagged =>
                            /\ SubSeq(ReplyText, 1, 4) =
                                   <<"Error: ", "Doc '", Unwrap(topic), "' not found. Available: ">>
                            /\ {ReplyText[i] : i \in 5..Len(ReplyText)} \ {", "} = DOMAIN docs

\* Nothing indexed, and a topic given: the advisory, not an error.
C23_Witness ==
    /\ Calls("get_docs")
    /\ AsStr(ToolArgs.project) = Some("app")
    /\ "app" \in DOMAIN projects
    /\ DOMAIN projects["app"].docs.docs = {}
    /\ AsStr(ToolArgs.topic) = Some("bogus")
    /\ ~Flagged

\* Nothing indexed and no topic; an index and a topic that is not in it; an
\* index and a topic that is.
C23_NoTopicNoDocs ==
    /\ Calls("get_docs")
    /\ AsStr(ToolArgs.project) = Some("lib")
    /\ "lib" \in DOMAIN projects
    /\ ~IsSome(AsStr(ToolArgs.topic))
    /\ ~Flagged
C23_TopicNotIndexed ==
    /\ Calls("get_docs")
    /\ AsStr(ToolArgs.project) = Some("app")
    /\ "app" \in DOMAIN projects
    /\ DOMAIN projects["app"].docs.docs # {}
    /\ AsStr(ToolArgs.topic) = Some("bogus")
    /\ Flagged
C23_TopicIndexed ==
    /\ Calls("get_docs")
    /\ AsStr(ToolArgs.project) = Some("app")
    /\ "app" \in DOMAIN projects
    /\ AsStr(ToolArgs.topic) = Some("guide")
    /\ "guide" \in DOMAIN projects["app"].docs.docs
    /\ ~Flagged

\* -------------------------------------------------------------------- C24
\* C24: for a project of the registry, get_commands without command_type
\* succeeds with as many bullets as the project's command mapping has entries,
\* one for each entry, holding its name and its command string, and nothing
\* besides the bullets; with a command_type that is not a key of the mapping
\* it fails with an error that names that type, and with one that is a key it
\* succeeds.
C24_OneBulletPerCommand ==
    (Calls("get_commands") /\ IsSome(AsStr(ToolArgs.project))
        /\ Unwrap(AsStr(ToolArgs.project)) \in DOMAIN projects) =>
        LET p == Unwrap(AsStr(ToolArgs.project))
            commands == projects[p].config.commands
            command_type == AsStr(ToolArgs.command_type)
            bullets == {i \in 1..Len(ReplyText) : ReplyText[i] = "- **"}
            BulletOf(name) ==
                {i \in bullets : /\ i + 6 <= Len(ReplyText)
                                 /\ SubSeq(ReplyText, i, i + 6) =
                                        <<"- **", name, "**: ", BQ, commands[name], BQ, "\n">>}
        IN IF ~IsSome(command_type)
           THEN /\ ~Flagged
                /\ Cardinality(bullets) = Cardinality(DOMAIN commands)
                /\ \A name \in DOMAIN commands : Cardinality(BulletOf(name)) = 1
                /\ DOMAIN commands # {} => Len(ReplyText) = 7 * Cardinality(DOMAIN commands)
           ELSE IF Unwrap(command_type) \in DOMAIN commands
           THEN ~Flagged
           ELSE /\ Flagged
                /\ ReplyText = <<"Error: ", "Command '", Unwrap(command_type),
                                 "' not found for project '", p, "'">>

\* A project with two commands, asked for all of them.
C24_Witness ==
    /\ Calls("get_commands")
    /\ AsStr(ToolArgs.project) = Some("app")
    /\ "app" \in DOMAIN projects
    /\ DOMAIN projects["app"].config.commands = {"build", "test"}
    /\ ~IsSome(AsStr(ToolArgs.command_type))
    /\ Len(ReplyText) = 14

\* A command type the project does not have; a project with no command at all.
C24_UnknownType ==
    /\ Calls("get_commands")
    /\ AsStr(ToolArgs.project) = Some("app")
    /\ "app" \in DOMAIN projects
    /\ DOMAIN projects["app"].config.commands # {}
    /\ AsStr(ToolArgs.command_type) = Some("bogus")
    /\ Flagged
C24_NoCommands ==
    /\ Calls("get_commands")
    /\ AsStr(ToolArgs.project) = Some("app")
    /\ "app" \in DOMAIN projects
    /\ DOMAIN projects["app"].config.commands = {}
    /\ ~IsSome(AsStr(ToolArgs.command_type))
    /\ ReplyText = <<"No commands defined.">>

\* -------------------------------------------------------------------- C25
\* C25: list_projects answers with the fixed advisory, as a success, exactly
\* when the registry is empty, be it the registry of a pass over a root without
\* any descriptor or of a pass that found only descriptors it could not read or
\* parse; it is no error on any registry.
C25_EmptyRegistryAdvisory ==
    Calls("list_projects") =>
        /\ ~Flagged
        /\ (DOMAIN projects = {}) <=>
               (ReplyText = <<"No projects found. Make sure .jumble/project.toml files exist in your workspace.">>)

\* The root holds no descriptor at all.
C25_Witness ==
    /\ Calls("list_projects")
    /\ DOMAIN projects = {}
    /\ RegistryIsOfPass
    /\ \A d \in Dirs : ~WalkFinds(passDisk, d)
    /\ ~Flagged

\* Every descriptor of the root is malformed.
C25_AllMalformed ==
    /\ Calls("list_projects")
    /\ DOMAIN projects = {}
    /\ RegistryIsOfPass
    /\ \A d \in Dirs : passDisk[d].project = "garbage"
    /\ ~Flagged

\* -------------------------------------------------------------------- C29
\* C29: at startup and after every reload, each entry of the project map is
\* stored under the name its own descriptor declares: for every key k of
\* self.projects, the config of the entry has project.name = k.
C29_KeyedByDeclaredName ==
    \A k \in DOMAIN projects : projects[k].config.project.name = k

\* After a reload the map holds two projects, each in a directory whose name is
\* not the project's.
C29_Witness ==
    /\ edits > 0
    /\ DOMAIN projects = {"app", "lib"}
    /\ projects["app"].dir = "a"
    /\ projects["lib"].dir = "b"

\* After a reload, app is the project of directory b.
C29_NameMovesDirectory ==
    /\ edits > 0
    /\ "app" \in DOMAIN projects
    /\ projects["app"].dir = "b"

\* -------------------------------------------------------------------- C30
\* C30: reload_workspace reports success on every tree, whatever is missing,
\* unreadable or malformed in it: its reply is the unflagged "Workspace and
\* projects reloaded from disk.", the registry it leaves is the one of a pass
\* over that tree, down to no project and no workspace, and no tool reply ever
\* holds "Failed to reload workspace".
C30_ReloadAlwaysSucceeds ==
    /\ Calls("reload_workspace") =>
           /\ ~Flagged
           /\ ReplyText = <<"Workspace and projects reloaded from disk.">>
           /\ RegistryIsOfPass
    /\ NamedCall =>
           \A i \in 1..Len(ReplyText) : ReplyText[i] # "Failed to reload workspace: "

\* A reload on a root with no descriptor and no workspace.toml: success, and
\* the registry is empty with no workspace.
C30_Witness ==
    /\ Calls("reload_workspace")
    /\ \A d \in Dirs : ~WalkFinds(disk, d)
    /\ wsFile = "absent"
    /\ DOMAIN projects = {}
    /\ workspace = None
    /\ ~Flagged

\* A reload on a tree whose descriptors are all malformed; a reload on a tree
\* with a project whose conventions, docs and prompts cannot be read.
C30_AllMalformed ==
    /\ Calls("reload_workspace")
    /\ \A d \in Dirs : disk[d].project = "garbage"
    /\ ~Flagged
C30_UnreadableFiles ==
    /\ Calls("reload_workspace")
    /\ disk["a"].conventions = "unreadable"
    /\ disk["a"].docs = "unreadable"
    /\ disk["a"].prompts = "locked"
    /\ "app" \in DOMAIN projects
    /\ ~Flagged

\* -------------------------------------------------------------------- C26
\* C26: setup_init never overwrites and is idempotent: each of
\* .jumble/project.toml, .ai/constitution.md, AGENTS.md and .gitignore that
\* exists before a run has the same content after it, so a user's .gitignore
\* stays as it was, and a run that follows another run leaves the whole tree
\* as the first one left it.
C26_InitNeverOverwrites ==
    \A i \in 1..Len(setup.cmds) :
        setup.cmds[i].name = "init" =>
            LET before == setup.trees[i]
                after == setup.trees[i + 1]
            IN /\ \A f \in {"project_toml", "constitution", "agents_md", "gitignore"} :
                      Exists(before[f]) => after[f] = before[f]
               /\ (i > 1 /\ setup.cmds[i - 1].name = "init") => after = before

\* Two runs on a root that has the user's .gitignore and no descriptor: the
\* first writes the default descriptor and keeps the .gitignore, the second
\* changes nothing.
C26_Witness ==
    /\ Len(setup.cmds) = 2
    /\ setup.cmds[1] = [name |-> "init", force |-> FALSE, ok |-> TRUE]
    /\ setup.cmds[2] = [name |-> "init", force |-> FALSE, ok |-> TRUE]
    /\ setup.trees[1].project_toml = "absent"
    /\ setup.trees[1].gitignore = "*.log\n*.tmp\n"
    /\ setup.trees[2].project_toml = "default_project"
    /\ setup.trees[2].gitignore = "*.log\n*.tmp\n"
    /\ setup.trees[3] = setup.trees[2]

\* A run that fails half way (.ai is a file) after it wrote the descriptor,
\* and the user's AGENTS.md kept.
C26_FailedRun ==
    /\ Len(setup.cmds) = 2
    /\ setup.cmds[1] = [name |-> "init", force |-> FALSE, ok |-> FALSE]
    /\ setup.cmds[2].name = "init"
    /\ setup.trees[1].project_toml = "absent"
    /\ setup.trees[2].project_toml = "default_project"
    /\ setup.trees[2].agents_md = "user agents"

\* -------------------------------------------------------------------- C27
\* C27: setup_warp without force, on a WARP.md in which the jumble section
\* marker occurs, leaves the file and the rest of the tree as they are; the
\* marker occurs as often after the run as before it, however often the
\* command is repeated.
C27_WarpSkipsExistingSection ==
    \A i \in 1..Len(setup.cmds) :
        LET before == setup.trees[i]
            after == setup.trees[i + 1]
            Markers(t) == Cardinality({k \in 1..Len(Unwrap(t.warp_md).lines) :
                              LineContains(Unwrap(t.warp_md).lines[k], JUMBLE_SECTION_MARKER)})
        IN (/\ setup.cmds[i].name = "warp"
            /\ ~setup.cmds[i].force
            /\ IsSome(before.warp_md)
            /\ Markers(before) > 0) =>
               /\ after = before
               /\ Markers(after) = Markers(before)

\* The command run twice on a WARP.md that holds the current section.
C27_Witness ==
    /\ Len(setup.cmds) = 2
    /\ \A i \in 1..2 : setup.cmds[i].name = "warp" /\ ~setup.cmds[i].force
    /\ setup.trees[1].warp_md = Some(Text(<<"# WARP.md", "">> \o JUMBLE_SECTION, TRUE))
    /\ setup.trees[3] = setup.trees[1]

\* A WARP.md with an old section; a WARP.md that has the marker inside a line;
\* the second run on a WARP.md the first run wrote.
C27_OldSection ==
    /\ Len(setup.cmds) = 1
    /\ setup.cmds[1].name = "warp" /\ ~setup.cmds[1].force
    /\ IsSome(setup.trees[1].warp_md)
    /\ "Old content here." \in {Unwrap(setup.trees[2].warp_md).lines[k] :
                                   k \in 1..Len(Unwrap(setup.trees[2].warp_md).lines)}
C27_MarkerInsideLine ==
    /\ Len(setup.cmds) = 1
    /\ setup.cmds[1].name = "warp" /\ ~setup.cmds[1].force
    /\ setup.trees[1].warp_md = Some(Text(<<"# WARP.md", "See ## Using Jumble for Project Context">>, TRUE))
    /\ setup.trees[2] = setup.trees[1]
C27_AfterCreation ==
    /\ Len(setup.cmds) = 2
    /\ \A i \in 1..2 : setup.cmds[i].name = "warp" /\ ~setup.cmds[i].force
    /\ setup.trees[1].warp_md = None
    /\ IsSome(setup.trees[2].warp_md)
    /\ setup.trees[3] = setup.trees[2]

\* -------------------------------------------------------------------- C28
\* What a forced setup_warp does to a WARP.md that has a jumble section, the
\* old section reaching from a line that starts with the marker to the line
\* before the next one that Ends it: the new file holds the lines of the
\* current section in a row; every line outside the old section is kept, in
\* the order the lines had; and no line of the old section's body is left,
\* unless the same line also stands outside it or in the current section.
ForcedReplace(Ends(_)) ==
    \A i \in 1..Len(setup.cmds) :
        LET old == IF IsSome(setup.trees[i].warp_md)
                   THEN Unwrap(setup.trees[i].warp_md).lines ELSE <<>>
            new == Unwrap(setup.trees[i + 1].warp_md)
            split == new.lines \o (IF new.nl THEN <<"">> ELSE <<>>)
            IsMarker(k) == LineStartsWith(old[k], JUMBLE_SECTION_MARKER)
            InSection(k) ==
                \E m \in 1..k : /\ IsMarker(m)
                                /\ \A j \in (m + 1)..k : IsMarker(j) \/ ~Ends(old[j])
            outside == {k \in 1..Len(old) : ~InSection(k)}
            body == {k \in 1..Len(old) : InSection(k) /\ ~IsMarker(k)}
            RECURSIVE Kept(_)
            Kept(k) == IF k > Len(old) THEN <<>>
                       ELSE (IF k \in outside THEN <<old[k]>> ELSE <<>>) \o Kept(k + 1)
            RECURSIVE InOrder(_, _)
            InOrder(a, b) == IF a = <<>> THEN TRUE
                             ELSE IF b = <<>> THEN FALSE
                             ELSE IF Head(a) = Head(b) THEN InOrder(Tail(a), Tail(b))
                             ELSE InOrder(a, Tail(b))
        IN (/\ setup.cmds[i].name = "warp"
            /\ setup.cmds[i].force
            /\ \E k \in 1..Len(old) : IsMarker(k)) =>
               /\ \E o \in 1..Len(new.lines) :
                      /\ o + Len(JUMBLE_SECTION) - 1 <= Len(new.lines)
                      /\ SubSeq(new.lines, o, o + Len(JUMBLE_SECTION) - 1) = JUMBLE_SECTION
               /\ InOrder(Kept(1), split)
               /\ \A k \in body :
                      \/ \E j \in outside : old[j] = old[k]
                      \/ \E j \in 1..Len(JUMBLE_SECTION) : JUMBLE_SECTION[j] = old[k]
                      \/ \A j \in 1..Len(split) : split[j] # old[k]

\* C28 as stated: a forced setup_warp on a WARP.md with a jumble section puts
\* the current section in, leaves none of the old section's body lines, and
\* keeps every line of the other sections in order, the old section ending
\* where the next section begins: at the next heading of its level or above.
C28_ForceReplacesSection ==
    ForcedReplace(LAMBDA l : LineStartsWith(l, "# ") \/ LineStartsWith(l, "## "))

\* C28 as the code has it: the same, with the old section ending only at a
\* "# " heading or at a "## " heading that does not contain "Using Jumble", so
\* that a following section whose "## " heading contains these words is taken
\* for a part of the old section and removed with it.
C28_ForceReplacesUpToPlainHeading ==
    ForcedReplace(LAMBDA l : \/ LineStartsWith(l, "# ")
                             \/ (LineStartsWith(l, "## ") /\ ~LineContains(l, "Using Jumble")))

\* The forced run on the file of test_replace_jumble_section: the old lines
\* are gone, "## Another Section" and its line are kept.
C28_Witness ==
    /\ Len(setup.cmds) = 1
    /\ setup.cmds[1].name = "warp" /\ setup.cmds[1].force
    /\ setup.trees[1].warp_md =
           Some(Text(<<"# WARP.md", "", JUMBLE_SECTION_MARKER, "", "Old content here.", "",
                       "## Another Section", "", "Keep this section.">>, TRUE))
    /\ setup.trees[2].warp_md =
           Some(Text(<<"# WARP.md", "", "## Another Section", "", "Keep this section.", "">>
                     \o JUMBLE_SECTION, FALSE))

\* The forced run that removes the section "## Using Jumble in CI".
C28_SectionLost ==
    /\ Len(setup.cmds) = 1
    /\ setup.cmds[1].name = "warp" /\ setup.cmds[1].force
    /\ setup.trees[1].warp_md =
           Some(Text(<<"# WARP.md", JUMBLE_SECTION_MARKER, "Old content here.",
                       "## Using Jumble in CI", "Keep this step.">>, TRUE))
    /\ setup.trees[2].warp_md = Some(Text(<<"# WARP.md", "">> \o JUMBLE_SECTION, FALSE))

====
